---- MODULE Spec2Model ----
(***************************************************************************)
(* Alert evaluation and real-time notification core of the device-fleet    *)
(* monitoring backend: the Alert entity (app/models/alert.py), the         *)
(* AlertService evaluation engine (app/services/alert_service.py), the     *)
(* ConnectionManager registry (app/services/websocket_manager.py) and the  *)
(* heartbeat ingestion endpoint (app/api/heartbeats.py).                   *)
(*                                                                         *)
(* Time is counted in whole minutes.  The relational store is shared by    *)
(* every session; each evaluation call works on its own session, whose     *)
(* loaded objects are a snapshot that is expired by the session's commit.  *)
(***************************************************************************)
EXTENDS Integers, Sequences, FiniteSets, TLC

\* ------------------------------------------------------------------ bounds
MaxTime == 3
MaxCount == 2
MaxIngests == 2

\* ------------------------------------------------------- the fixed universe
NULL == "null"

\* A nullable timestamp column: NULL, or the minute t with or without a
\* timezone attached.
NoTimestamp == [null |-> TRUE, t |-> 0, aware |-> FALSE]

Users == {"u1", "u2"}
Devices == {"d1"}
DeviceIds == Devices \cup {"dX"}
Rules == {"r1", "r2"}
Conns == {"c1", "c2", "c3", "c4"}
Tasks == {1, 2}
Casts == {1, 2}

\* The keys of the user map: the user ids, and whatever string a client of
\* the generic endpoint passes as user_id, here the id of device d1.
UserKeys == Users \cup {"d1"}

\* The clients: c1 opens the user channel (/ws/user) as u1, c2 the generic
\* endpoint as /ws?device_id=d1&user_id=u1, c3 the device channel
\* (/ws/device/d1), c4 the generic endpoint as /ws?user_id=d1.
ConnUser ==
  [c \in Conns |-> IF c = "c3" THEN NULL ELSE IF c = "c4" THEN "d1" ELSE "u1"]
ConnDevice == [c \in Conns |-> IF c \in {"c2", "c3"} THEN "d1" ELSE NULL]

DeviceOwner == [d \in Devices |-> "u1"]
RuleDevice == [r \in Rules |-> "d1"]

\* The heartbeat payloads fed to the engine: both rules satisfied, only r1
\* satisfied, none satisfied.
HBs ==
  { [cpu_usage |-> 90, temperature |-> 70],
    [cpu_usage |-> 90, temperature |-> 45],
    [cpu_usage |-> 10, temperature |-> 45] }

\* The rows of the alerts table as created through the API: active, never
\* triggered.
InitialAlerts ==
  [r \in Rules |->
     [ conditions |-> IF r = "r1"
                        THEN << [metric |-> "cpu_usage", operator |-> ">", value |-> 80] >>
                        ELSE << [metric |-> "temperature", operator |-> ">", value |-> 60] >>,
       duration_minutes |-> IF r = "r1" THEN 1 ELSE 2,
       is_active |-> TRUE,
       last_triggered |-> NoTimestamp,
       trigger_count |-> 0 ]]

\* ---------------------------------------------------------- Alert entity

ConditionHolds_mut_absent_fails(c, hb) ==
  IF c.metric \notin DOMAIN hb
    THEN FALSE
    ELSE CASE c.operator = ">"  -> hb[c.metric] > c.value
           [] c.operator = ">=" -> hb[c.metric] >= c.value
           [] c.operator = "<"  -> hb[c.metric] < c.value
           [] c.operator = "<=" -> hb[c.metric] <= c.value
           [] c.operator = "==" -> hb[c.metric] = c.value
           [] c.operator = "!=" -> hb[c.metric] # c.value
           [] OTHER -> TRUE

\* One condition against the payload; a metric absent from the payload is
\* skipped, an operator outside the six falls through every branch.
ConditionHolds(c, hb) ==
  IF c.metric \notin DOMAIN hb
    THEN TRUE
    ELSE CASE c.operator = ">"  -> hb[c.metric] > c.value
           [] c.operator = ">=" -> hb[c.metric] >= c.value
           [] c.operator = "<"  -> hb[c.metric] < c.value
           [] c.operator = "<=" -> hb[c.metric] <= c.value
           [] c.operator = "==" -> hb[c.metric] = c.value
           [] c.operator = "!=" -> hb[c.metric] # c.value
           [] OTHER -> TRUE

evaluate_conditions(row, hb) ==
  IF Len(row.conditions) = 0 \/ ~row.is_active
    THEN FALSE
    ELSE \A k \in 1..Len(row.conditions) : ConditionHolds(row.conditions[k], hb)

\* trigger() writes the naive datetime.utcnow(); a DateTime(timezone=True)
\* column read back from the store carries a timezone when the store keeps one.
NaiveNow(t) == [null |-> FALSE, t |-> t, aware |-> FALSE]

\* is_triggered compares last_triggered with the naive utcnow(): comparing a
\* timezone-aware value with a naive one raises TypeError.
is_triggered_raises(row) ==
  ~row.last_triggered.null /\ row.last_triggered.aware

is_triggered_mut_never(row, t) == FALSE

is_triggered(row, t) ==
  IF row.last_triggered.null
    THEN FALSE
    ELSE row.last_triggered.t > t - row.duration_minutes

trigger_mut_guarded(row, t) ==
  IF ~row.last_triggered.null /\ row.last_triggered.t > t - row.duration_minutes
    THEN row
    ELSE [row EXCEPT !.last_triggered = NaiveNow(t), !.trigger_count = @ + 1]

trigger(row, t) ==
  [row EXCEPT !.last_triggered = NaiveNow(t), !.trigger_count = @ + 1]

reset_mut_zeroes(row) == [row EXCEPT !.last_triggered = NoTimestamp, !.trigger_count = 0]

reset(row) == [row EXCEPT !.last_triggered = NoTimestamp]

\* ------------------------------------------------------------- sequences
RECURSIVE RemoveFirst(_, _)
RemoveFirst(s, c) ==
  IF s = << >> THEN << >>
  ELSE IF Head(s) = c THEN Tail(s)
  ELSE << Head(s) >> \o RemoveFirst(Tail(s), c)

InSeq(s, c) == \E k \in 1..Len(s) : s[k] = c

\* All orderings of a finite set, as sequences without repetition.
Orderings(S) ==
  { s \in [1..Cardinality(S) -> S] : \A a, b \in 1..Cardinality(S) : a # b => s[a] # s[b] }

\* ------------------------------------------------------------------ state
VARIABLES
  now,                \* the clock, in minutes
  tzAware,            \* whether the store returns timezone-aware timestamps
  alerts,             \* the alerts table: rule id -> row
  task,               \* the evaluate_device_alerts calls in flight, one session each
  lastFire,           \* per rule: time of its latest trigger since its latest reset
  user_connections,   \* registry: user id -> list of connections
  active_connections, \* registry: device id -> list of connections
  ws,                 \* per connection: its handler's state and connect() keys
  inbox,              \* per connection: the events of the calls in flight sent to it
  heartbeats,         \* the heartbeats table: device id -> persisted samples
  last_seen,          \* devices.last_seen
  ingest,             \* the latest create_heartbeat request and its response
  ingests,            \* number of create_heartbeat requests handled
  probe,              \* the latest direct call of an Alert method or endpoint and its outcome
  bc                  \* the ConnectionManager broadcasts in flight

dbVars == << alerts, heartbeats, last_seen >>
ghostVars == << lastFire >>
regVars == << user_connections, active_connections, ws, inbox >>
engineVars == << task >>
ingestVars == << ingest, ingests >>
entityVars == << probe >>
castVars == << bc >>
vars == << now, tzAware, alerts, task, lastFire,
           user_connections, active_connections, ws, inbox,
           heartbeats, last_seen, ingest, ingests, probe, bc >>

\* A registry dict entry: the key is absent, or present with its list.
NoKey == [present |-> FALSE, conns |-> << >>]

\* A session none of whose objects is loaded.
ExpiredSession == [r \in Rules |-> [loaded |-> FALSE, row |-> InitialAlerts[r]]]

\* The payload slot of a call or request that has not been given one.
NoPayload == [cpu_usage |-> 0, temperature |-> 0]

IdleTask ==
  [ pc |-> "idle", device_id |-> NULL, hb |-> NoPayload,
    active_alerts |-> << >>, i |-> 0, snap |-> ExpiredSession,
    triggered_alerts |-> << >>, result |-> << >>, bi |-> 0, disconnected |-> << >>,
    \* what the call has done so far, kept for the properties:
    seen |-> {},        \* rules whose evaluation completed
    fired |-> {},       \* rules it triggered and committed
    notified |-> {},    \* rules whose alert_triggered broadcast it issued
    armed |-> {},       \* rules with a trigger history and no last_triggered at its start
    error |-> "none",   \* what raised into the except branch, if anything
    failed |-> NULL,    \* the rule whose evaluation raised
    audience |-> << >>, \* the owner's connection list when the broadcast started
    subscribers |-> {}, \* the open connections registered for the device or its owner then
    detached |-> FALSE ]\* the list being iterated was emptied and dropped from the dict

\* No direct call made yet.
NoProbe == [op |-> "none"]

\* A broadcast slot not in use.
IdleCast ==
  [ pc |-> "idle", kind |-> "none", key |-> NULL, bi |-> 0,
    targets |-> << >>,      \* broadcast_to_all: the collected connections, in iteration order
    disconnected |-> << >>, \* the connections whose send raised
    raised |-> FALSE,       \* the broadcast raised to its caller
    detached |-> FALSE,     \* the list being iterated was emptied and dropped from the dict
    \* kept for the properties:
    audience |-> << >>,     \* the members of the key (or of the registry) at the start
    sent |-> << >> ]        \* the connections whose send returned, one entry per send

NoIngest ==
  [ status |-> 0, device_id |-> NULL, hb |-> NoPayload, owed |-> {},
    step_raised |-> FALSE,   \* a step of the score computation raised
    db_ok |-> FALSE,         \* the database took the writes
    cast |-> "none" ]        \* how the call of broadcast_device_update ended

Init ==
  /\ now = 0
  /\ tzAware \in BOOLEAN
  /\ alerts = InitialAlerts
  /\ task = [t \in Tasks |-> IdleTask]
  /\ lastFire = [r \in Rules |-> NoTimestamp]
  /\ user_connections = [u \in UserKeys |-> NoKey]
  /\ active_connections = [d \in DeviceIds |-> NoKey]
  /\ ws = [c \in Conns |-> [state |-> "new", device_id |-> NULL, user_id |-> NULL]]
  /\ inbox = [c \in Conns |-> {}]
  /\ heartbeats = [d \in Devices |-> << >>]
  /\ last_seen = [d \in Devices |-> NoTimestamp]
  /\ ingest = NoIngest
  /\ ingests = 0
  /\ probe = NoProbe
  /\ bc = [b \in Casts |-> IdleCast]

\* ------------------------------------------------------------ persistence

\* What a DateTime(timezone=True) column gives back for a value written to it.
Persisted(v) == IF v.null THEN NoTimestamp ELSE [null |-> FALSE, t |-> v.t, aware |-> tzAware]

\* The session's view of rule r: the loaded object, or a fresh read of the
\* row when the object is expired (after this session's commit).
Loaded(t, r) == IF task[t].snap[r].loaded THEN task[t].snap[r].row ELSE alerts[r]

CommitTrigger_mut_deferred(r, obj) == alerts

\* db.commit() of a session whose only dirty object is rule r: the UPDATE
\* writes the changed columns of the in-memory object.
CommitTrigger(r, obj) ==
  [alerts EXCEPT ![r].last_triggered = Persisted(obj.last_triggered),
                 ![r].trigger_count = obj.trigger_count]

ActiveRulesOf(d) == { r \in Rules : RuleDevice[r] = d /\ alerts[r].is_active }

\* ---------------------------------------------------------------- clock
Tick ==
  /\ now < MaxTime
  /\ now' = now + 1
  /\ UNCHANGED << tzAware, dbVars, engineVars, ghostVars, regVars, ingestVars, entityVars, castVars >>

\* ------------------------------------------------- evaluate_device_alerts

Owner_mut_other(d) == "u2"

Owner(d) == DeviceOwner[d]

\* The alert_triggered event for rule r issued by the call of session k.
AlertEvent(r, k) == [type |-> "alert_triggered", id |-> r, call |-> k]

EvalBegin_mut_raises(t, d, hb) ==
  /\ task[t].pc = "idle"
  /\ \A r \in Rules : alerts[r].trigger_count < MaxCount
  /\ task' = [task EXCEPT ![t] =
                [IdleTask EXCEPT !.pc = "done", !.device_id = d, !.hb = hb,
                                 !.error = "NotFound"]]
  /\ UNCHANGED << now, tzAware, dbVars, ghostVars, regVars, ingestVars, entityVars, castVars >>

\* Lines 22-33: the device lookup and the query of its active rules, in
\* whatever order the store returns them.
EvalBegin(t, d, hb) ==
  /\ task[t].pc = "idle"
  /\ \A r \in Rules : alerts[r].trigger_count < MaxCount
  /\ IF d \notin Devices
       THEN task' = [task EXCEPT ![t] =
                       [IdleTask EXCEPT !.pc = "done", !.device_id = d, !.hb = hb]]
       ELSE \E order \in Orderings(ActiveRulesOf(d)) :
              task' = [task EXCEPT ![t] =
                         [IdleTask EXCEPT
                            !.pc = "loop", !.device_id = d, !.hb = hb,
                            !.active_alerts = order, !.i = 1,
                            !.armed = { r \in ActiveRulesOf(d) :
                                          /\ alerts[r].last_triggered.null
                                          /\ alerts[r].trigger_count > 0 },
                            !.snap = [r \in Rules |->
                                        IF r \in ActiveRulesOf(d)
                                          THEN [loaded |-> TRUE, row |-> alerts[r]]
                                          ELSE ExpiredSession[r]]]]
  /\ UNCHANGED << now, tzAware, dbVars, ghostVars, regVars, ingestVars, entityVars, castVars >>

\* The except branch of lines 54-56: whatever was triggered so far, the call
\* returns the empty list.
Abort(t, r, what) ==
  [task EXCEPT ![t].pc = "done", ![t].result = << >>, ![t].error = what, ![t].failed = r]

NextRule(tk) ==
  [tk EXCEPT !.pc = "loop", !.i = @ + 1, !.bi = 0, !.disconnected = << >>,
             !.audience = << >>, !.subscribers = {}, !.detached = FALSE]

\* Lines 35-40 for the rule at position i: evaluate_conditions, is_triggered,
\* trigger() and the commit, which may fail.
EvalRule(t, commitOk) ==
  /\ task[t].pc = "loop"
  /\ task[t].i <= Len(task[t].active_alerts)
  /\ LET r == task[t].active_alerts[task[t].i]
         row == Loaded(t, r)
         kept == [task[t] EXCEPT !.snap[r] = [loaded |-> TRUE, row |-> row],
                                 !.seen = @ \cup {r}]
     IN  IF ~evaluate_conditions(row, task[t].hb)
           THEN /\ task' = [task EXCEPT ![t] = NextRule(kept)]
                /\ UNCHANGED << alerts, ghostVars >>
         ELSE IF is_triggered_raises(row)
           THEN /\ task' = Abort(t, r, "TypeError")
                /\ UNCHANGED << alerts, ghostVars >>
         ELSE IF is_triggered(row, now)
           THEN /\ task' = [task EXCEPT ![t] = NextRule(kept)]
                /\ UNCHANGED << alerts, ghostVars >>
         ELSE IF ~commitOk
           THEN /\ task' = Abort(t, r, "CommitError")
                /\ UNCHANGED << alerts, ghostVars >>
           ELSE /\ alerts' = CommitTrigger(r, trigger(row, now))
                /\ task' = [task EXCEPT ![t] =
                              [kept EXCEPT !.pc = "notify",
                                           !.snap = ExpiredSession,
                                           !.triggered_alerts = Append(@, r),
                                           !.fired = @ \cup {r}]]
                /\ lastFire' = [lastFire EXCEPT ![r] = NaiveNow(now)]
  /\ UNCHANGED << now, tzAware, heartbeats, last_seen, regVars, ingestVars, entityVars, castVars >>

\* Line 52.
EvalReturn(t) ==
  /\ task[t].pc = "loop"
  /\ task[t].i > Len(task[t].active_alerts)
  /\ task' = [task EXCEPT ![t].pc = "done", ![t].result = task[t].triggered_alerts]
  /\ UNCHANGED << now, tzAware, dbVars, ghostVars, regVars, ingestVars, entityVars, castVars >>

\* The caller takes the result; the session ends.
EvalFinish(t) ==
  /\ task[t].pc = "done"
  /\ task' = [task EXCEPT ![t] = IdleTask]
  /\ inbox' = [c \in Conns |-> { e \in inbox[c] : e.call # t }]
  /\ UNCHANGED << now, tzAware, dbVars, ghostVars,
                  user_connections, active_connections, ws, ingestVars, entityVars, castVars >>

\* ------------------------------------------------------ ConnectionManager

\* connect(): lines 20-30 for one of the two maps.
Connect(map, key, c) ==
  IF key = NULL THEN map
  ELSE [map EXCEPT ![key] = [present |-> TRUE, conns |-> Append(@.conns, c)]]

\* disconnect(): lines 34-46 for one of the two maps.
Disconnect(map, key, c) ==
  IF key = NULL \/ ~map[key].present THEN map
  ELSE LET left == RemoveFirst(map[key].conns, c)
       IN  [map EXCEPT ![key] = IF left = << >> THEN NoKey
                                 ELSE [present |-> TRUE, conns |-> left]]

\* Lines 70-72 and 89-91: list.remove() of each failed connection under the
\* broadcast key; a missing key or a missing member raises and ends the loop.
RECURSIVE PruneList(_, _)
PruneList(list, disc) ==
  IF disc = << >> THEN list
  ELSE IF ~InSeq(list, Head(disc)) THEN list
  ELSE PruneList(RemoveFirst(list, Head(disc)), Tail(disc))

Prune(map, key, disc) ==
  IF ~map[key].present THEN map
  ELSE [map EXCEPT ![key].conns = PruneList(@, disc)]

\* The list a broadcast loop is iterating: the key's list, or the emptied
\* list it started on when the key is gone.
Iterated(map, key) == IF map[key].present THEN map[key].conns ELSE << >>

\* The open connections registered under the key of device d or under the
\* key of the user who owns d.
Subscribers(d) ==
  { c \in Conns :
      /\ ws[c].state = "open"
      /\ \/ InSeq(Iterated(active_connections, d), c)
         \/ InSeq(Iterated(user_connections, DeviceOwner[d]), c) }

\* The map a keyed broadcast works on.
KeyedMap_mut_user_only(kind) == user_connections

KeyedMap(kind) == IF kind = "device" THEN active_connections ELSE user_connections

\* Dropping a list from a dict leaves every broadcast loop that is iterating
\* that list object on an empty list: the engine calls sending to the owner
\* of their device, and the keyed broadcasts in flight.
DetachTasks(uc) ==
  [t \in Tasks |->
     IF /\ task[t].pc = "send"
        /\ ~task[t].detached
        /\ ~uc[Owner(task[t].device_id)].present
       THEN [task[t] EXCEPT !.detached = TRUE]
       ELSE task[t]]

DetachCasts(ac, uc) ==
  [b \in Casts |->
     IF /\ bc[b].pc = "send"
        /\ bc[b].kind \in {"device", "user"}
        /\ ~bc[b].detached
        /\ ~(IF bc[b].kind = "device" THEN ac ELSE uc)[bc[b].key].present
       THEN [bc[b] EXCEPT !.detached = TRUE]
       ELSE bc[b]]

\* A websocket endpoint accepts a connection and registers it
\* (websockets/connection.py lines 24, 83, 165).
WsConnect(c, d, u) ==
  /\ ws[c].state = "new"
  /\ d # NULL \/ u # NULL
  /\ ws' = [ws EXCEPT ![c] = [state |-> "open", device_id |-> d, user_id |-> u]]
  /\ active_connections' = Connect(active_connections, d, c)
  /\ user_connections' = Connect(user_connections, u, c)
  /\ UNCHANGED << now, tzAware, dbVars, engineVars, ghostVars, inbox, ingestVars, entityVars, castVars >>

\* The peer goes away; from now on a send to the connection raises.
WsBreak(c) ==
  /\ ws[c].state \in {"open", "hung"}
  /\ ws' = [ws EXCEPT ![c].state = "dead"]
  /\ UNCHANGED << now, tzAware, dbVars, engineVars, ghostVars,
                  user_connections, active_connections, inbox, ingestVars, entityVars, castVars >>

\* The handler's receive_text() raises; it disconnects with the keys it
\* connected with (websockets/connection.py lines 67-72, 109-114, 196-201).
\* Line 46 drops an emptied list from the dict: a broadcast loop that is
\* iterating that list object finds it empty from then on.
WsDisconnect(c) ==
  /\ ws[c].state \in {"open", "dead"}
  /\ active_connections' = Disconnect(active_connections, ws[c].device_id, c)
  /\ user_connections' = Disconnect(user_connections, ws[c].user_id, c)
  /\ ws' = [ws EXCEPT ![c] = [state |-> "closed", device_id |-> NULL, user_id |-> NULL]]
  /\ task' = DetachTasks(user_connections')
  /\ bc' = DetachCasts(active_connections', user_connections')
  /\ UNCHANGED << now, tzAware, dbVars, ghostVars, inbox, ingestVars, entityVars >>

\* The peer stops reading: a send to the connection no longer returns, and no
\* timeout bounds the await of send_text (websocket_manager.py lines 65, 84,
\* 108).
WsHang(c) ==
  /\ ws[c].state = "open"
  /\ ws' = [ws EXCEPT ![c].state = "hung"]
  /\ UNCHANGED << now, tzAware, dbVars, engineVars, ghostVars,
                  user_connections, active_connections, inbox, ingestVars, entityVars, castVars >>

\* The handler task is cancelled while it awaits receive_text():
\* CancelledError is not an Exception, neither except clause of the endpoint
\* (connection.py lines 67-72, 109-114, 196-201) runs and there is no finally.
WsCancel(c) ==
  /\ ws[c].state \in {"open", "dead"}
  /\ ws' = [ws EXCEPT ![c].state = "cancelled"]
  /\ UNCHANGED << now, tzAware, dbVars, engineVars, ghostVars,
                  user_connections, active_connections, inbox, ingestVars, entityVars, castVars >>

\* The connections served by the generic endpoint, which reads control
\* messages.
GenericConns == {"c2", "c4"}

\* The connections of the registry runs: c2 on the generic endpoint under d1
\* and u1, c3 on the device channel of d1.
RegistryConns == {"c2", "c3"}

AcceptRaises_mut_never(state) == FALSE

\* websocket.accept() (manager line 18) completes the handshake of a new
\* connection and raises on a connection that was accepted before.
AcceptRaises(state) == state # "new"

\* A "subscribe" message (connection.py lines 42-50): connect() is called
\* again on the open connection, for the device named and then for the user
\* named; accept() comes before the append, and what it raises is logged by
\* line 64.
WsSubscribe(c, d, u) ==
  /\ c \in GenericConns
  /\ ws[c].state = "open"
  /\ d # NULL \/ u # NULL
  /\ LET raises == AcceptRaises(ws[c].state)
     IN  /\ active_connections' =
              IF raises THEN active_connections ELSE Connect(active_connections, d, c)
         /\ user_connections' =
              IF raises THEN user_connections ELSE Connect(user_connections, u, c)
         /\ probe' = [op |-> "subscribe", conn |-> c, device_id |-> d, user_id |-> u,
                      raised |-> raises]
  /\ UNCHANGED << now, tzAware, dbVars, engineVars, ghostVars, ws, inbox, ingestVars, castVars >>

\* An "unsubscribe" message (connection.py lines 52-60): disconnect() with
\* the keys named.
WsUnsubscribe(c, d, u) ==
  /\ c \in GenericConns
  /\ ws[c].state = "open"
  /\ d # NULL \/ u # NULL
  /\ active_connections' = Disconnect(active_connections, d, c)
  /\ user_connections' = Disconnect(user_connections, u, c)
  /\ task' = DetachTasks(user_connections')
  /\ bc' = DetachCasts(active_connections', user_connections')
  /\ probe' = [op |-> "unsubscribe", conn |-> c, device_id |-> d, user_id |-> u,
               raised |-> FALSE]
  /\ UNCHANGED << now, tzAware, dbVars, ghostVars, ws, inbox, ingestVars >>

\* -------------------------------------------- ConnectionManager broadcasts

\* Whether the removal loop of lines 70-72 and 89-91 raises: KeyError when
\* the key is gone, ValueError when a failed connection is no longer in the
\* list.
RECURSIVE PruneListRaises(_, _)
PruneListRaises(list, disc) ==
  IF disc = << >> THEN FALSE
  ELSE IF ~InSeq(list, Head(disc)) THEN TRUE
  ELSE PruneListRaises(RemoveFirst(list, Head(disc)), Tail(disc))

PruneRaises(map, key, disc) ==
  IF disc = << >> THEN FALSE
  ELSE IF ~map[key].present THEN TRUE
  ELSE PruneListRaises(map[key].conns, disc)

AllConnections_mut_devices_only ==
  UNION { { active_connections[k].conns[j] : j \in 1..Len(active_connections[k].conns) } :
            k \in DOMAIN active_connections }

\* Lines 96-102: the set of the connections of every list of both maps.
AllConnections ==
  UNION { { active_connections[k].conns[j] : j \in 1..Len(active_connections[k].conns) } :
            k \in DOMAIN active_connections }
  \cup
  UNION { { user_connections[k].conns[j] : j \in 1..Len(user_connections[k].conns) } :
            k \in DOMAIN user_connections }

\* _cleanup_connection (lines 117-129) for every failed connection, on one
\* map: the connection is removed from each list that holds it, and a list
\* emptied that way is dropped with its key.
RECURSIVE RemoveEach(_, _)
RemoveEach(list, disc) ==
  IF disc = << >> THEN list
  ELSE RemoveEach(RemoveFirst(list, Head(disc)), Tail(disc))

CleanupAll(map, disc) ==
  [k \in DOMAIN map |->
     IF ~map[k].present \/ \A j \in 1..Len(disc) : ~InSeq(map[k].conns, disc[j])
       THEN map[k]
       ELSE LET left == RemoveEach(map[k].conns, disc)
            IN  IF left = << >> THEN NoKey ELSE [present |-> TRUE, conns |-> left]]

\* broadcast_to_device / broadcast_to_user, lines 57-61 and 76-80: no list
\* under the key returns at once; json.dumps may raise to the caller.
CastBeginKeyed(b, kind, key, dumpsOk) ==
  /\ bc[b].pc = "idle"
  /\ kind \in {"device", "user"}
  /\ key \in DOMAIN KeyedMap(kind)
  /\ LET begun == [IdleCast EXCEPT !.kind = kind, !.key = key]
     IN  IF ~KeyedMap(kind)[key].present
           THEN bc' = [bc EXCEPT ![b] = [begun EXCEPT !.pc = "done"]]
         ELSE IF ~dumpsOk
           THEN bc' = [bc EXCEPT ![b] = [begun EXCEPT !.pc = "done", !.raised = TRUE]]
           ELSE bc' = [bc EXCEPT ![b] =
                         [begun EXCEPT !.pc = "send", !.bi = 1,
                                       !.audience = KeyedMap(kind)[key].conns]]
  /\ UNCHANGED << now, tzAware, dbVars, engineVars, ghostVars, regVars, ingestVars, entityVars >>

\* broadcast_to_all, lines 95-104: json.dumps, then the connections of both
\* maps collected into a set, iterated in whatever order the set gives.
CastBeginAll(b, dumpsOk) ==
  /\ bc[b].pc = "idle"
  /\ LET begun == [IdleCast EXCEPT !.kind = "all"]
     IN  IF ~dumpsOk
           THEN bc' = [bc EXCEPT ![b] = [begun EXCEPT !.pc = "done", !.raised = TRUE]]
           ELSE \E order \in Orderings(AllConnections) :
                  bc' = [bc EXCEPT ![b] =
                           [begun EXCEPT !.pc = "send", !.bi = 1,
                                         !.targets = order, !.audience = order]]
  /\ UNCHANGED << now, tzAware, dbVars, engineVars, ghostVars, regVars, ingestVars, entityVars >>

\* The list a broadcast is iterating: the collected set, or the live list
\* under its key.
CastList(b) ==
  IF bc[b].kind = "all" THEN bc[b].targets
  ELSE IF bc[b].detached THEN << >>
  ELSE Iterated(KeyedMap(bc[b].kind), bc[b].key)

\* One turn of the send loop (lines 63-68, 82-87, 106-111): the send
\* returns, or it raises and the connection is noted.
CastSend(b) ==
  /\ bc[b].pc = "send"
  /\ bc[b].bi <= Len(CastList(b))
  /\ ws[CastList(b)[bc[b].bi]].state # "hung"
  /\ LET c == CastList(b)[bc[b].bi]
     IN  IF ws[c].state = "open"
           THEN bc' = [bc EXCEPT ![b].bi = @ + 1, ![b].sent = Append(@, c)]
           ELSE bc' = [bc EXCEPT ![b].bi = @ + 1, ![b].disconnected = Append(@, c)]
  /\ UNCHANGED << now, tzAware, dbVars, engineVars, ghostVars, regVars, ingestVars, entityVars >>

\* Past the end of the list: the removal of the failed connections.  A keyed
\* broadcast removes them from the list under its key only (lines 70-72,
\* 89-91), which raises when the key or a member is gone; broadcast_to_all
\* cleans both maps (lines 113-115).
CastCleanup(b) ==
  /\ bc[b].pc = "send"
  /\ bc[b].bi > Len(CastList(b))
  /\ LET disc == bc[b].disconnected
         ac == IF bc[b].kind = "all" THEN CleanupAll(active_connections, disc)
               ELSE IF bc[b].kind = "device" THEN Prune(active_connections, bc[b].key, disc)
               ELSE active_connections
         uc == IF bc[b].kind = "all" THEN CleanupAll(user_connections, disc)
               ELSE IF bc[b].kind = "user" THEN Prune(user_connections, bc[b].key, disc)
               ELSE user_connections
         raises == bc[b].kind # "all" /\ PruneRaises(KeyedMap(bc[b].kind), bc[b].key, disc)
     IN  /\ active_connections' = ac
         /\ user_connections' = uc
         /\ bc' = [DetachCasts(ac, uc) EXCEPT ![b] =
                     [bc[b] EXCEPT !.pc = "done", !.raised = raises]]
         /\ task' = DetachTasks(uc)
  /\ UNCHANGED << now, tzAware, dbVars, ghostVars, ws, inbox, ingestVars, entityVars >>

\* The caller has the outcome.
CastFinish(b) ==
  /\ bc[b].pc = "done"
  /\ bc' = [bc EXCEPT ![b] = IdleCast]
  /\ UNCHANGED << now, tzAware, dbVars, engineVars, ghostVars, regVars, ingestVars, entityVars >>

\* ------------------------------------------------ _send_alert_notification

EvalNotify_mut_propagates(t, dumpsOk) ==
  /\ task[t].pc = "notify"
  /\ LET r == task[t].active_alerts[task[t].i]
         u == Owner(task[t].device_id)
     IN  IF ~user_connections[u].present
           THEN task' = [task EXCEPT ![t] = NextRule([@ EXCEPT !.notified = @ \cup {r}])]
         ELSE IF ~dumpsOk
           THEN task' = Abort(t, r, "TypeError")
           ELSE task' = [task EXCEPT ![t].pc = "send", ![t].bi = 1,
                                     ![t].disconnected = << >>,
                                     ![t].notified = @ \cup {r},
                                     ![t].audience = user_connections[u].conns,
                                     ![t].subscribers = Subscribers(task[t].device_id)]
  /\ UNCHANGED << now, tzAware, dbVars, ghostVars, regVars, ingestVars, entityVars, castVars >>

\* Lines 58-84 up to the send loop of broadcast_to_user (lines 76-80): no
\* list under the owner's key returns at once; json.dumps may raise, which
\* line 93 catches.
EvalNotify(t, dumpsOk) ==
  /\ task[t].pc = "notify"
  /\ LET r == task[t].active_alerts[task[t].i]
         u == Owner(task[t].device_id)
     IN  IF ~user_connections[u].present
           THEN task' = [task EXCEPT ![t] = NextRule([@ EXCEPT !.notified = @ \cup {r}])]
         ELSE IF ~dumpsOk
           THEN task' = [task EXCEPT ![t] = NextRule(@)]
           ELSE task' = [task EXCEPT ![t].pc = "send", ![t].bi = 1,
                                     ![t].disconnected = << >>,
                                     ![t].notified = @ \cup {r},
                                     ![t].audience = user_connections[u].conns,
                                     ![t].subscribers = Subscribers(task[t].device_id)]
  /\ UNCHANGED << now, tzAware, dbVars, ghostVars, regVars, ingestVars, entityVars, castVars >>

\* One turn of the loop of lines 82-87, or, past the end of the list, the
\* removal of the failed connections (lines 90-91) and the return to the
\* rule loop.
EvalSend(t) ==
  /\ task[t].pc = "send"
  /\ LET r == task[t].active_alerts[task[t].i]
         u == Owner(task[t].device_id)
         list == IF task[t].detached THEN << >> ELSE Iterated(user_connections, u)
     IN  IF task[t].bi <= Len(list)
           THEN LET c == list[task[t].bi]
                IN  /\ IF ws[c].state = "open"
                         THEN /\ inbox' = [inbox EXCEPT ![c] = @ \cup {AlertEvent(r, t)}]
                              /\ task' = [task EXCEPT ![t].bi = @ + 1]
                         ELSE /\ inbox' = inbox
                              /\ task' = [task EXCEPT ![t].bi = @ + 1,
                                                      ![t].disconnected = Append(@, c)]
                    /\ UNCHANGED user_connections
           ELSE /\ user_connections' = Prune(user_connections, u, task[t].disconnected)
                /\ task' = [task EXCEPT ![t] = NextRule(@)]
                /\ UNCHANGED inbox
  /\ UNCHANGED << now, tzAware, dbVars, ghostVars, active_connections, ws, ingestVars, entityVars, castVars >>

\* ----------------------------------------------------- reset_alert_triggers

\* alert_service.py lines 164-189, in a session of its own: the rule is
\* looked up among the devices of the user; reset() and commit, or rollback.
reset_alert_triggers(r, u, commitOk) ==
  /\ LET user_device_ids == { d \in Devices : DeviceOwner[d] = u }
     IN  IF RuleDevice[r] \in user_device_ids /\ commitOk
           THEN /\ alerts' = [alerts EXCEPT ![r] = reset(@)]
                /\ lastFire' = [lastFire EXCEPT ![r] = NoTimestamp]
           ELSE UNCHANGED << alerts, lastFire >>
  /\ UNCHANGED << now, tzAware, heartbeats, last_seen, engineVars, regVars, ingestVars, entityVars, castVars >>

\* Rule ids a request may name: the stored rules and one that does not exist.
RuleIds == Rules \cup {"rX"}

FindUserAlert_mut_any_owner(rid, u) == rid \in Rules

\* The query of lines 169-175: the rule with this id among the rules of the
\* devices of the user.
FindUserAlert(rid, u) ==
  LET user_device_ids == { d \in Devices : DeviceOwner[d] = u }
  IN  rid \in Rules /\ RuleDevice[rid] \in user_device_ids

\* POST /alerts/{id}/reset (api/alerts.py lines 445-475) with the service call
\* it makes: the value reset_alert_triggers returns and the status answered.
post_reset(rid, u, commitOk) ==
  /\ LET found == FindUserAlert(rid, u)
         success == found /\ commitOk
     IN  /\ IF success
               THEN /\ alerts' = [alerts EXCEPT ![rid] = reset(@)]
                    /\ lastFire' = [lastFire EXCEPT ![rid] = NoTimestamp]
               ELSE UNCHANGED << alerts, lastFire >>
         /\ probe' = [op |-> "reset_alert_triggers", alert_id |-> rid, user_id |-> u,
                      result |-> success, status |-> IF success THEN 200 ELSE 404]
  /\ UNCHANGED << now, tzAware, heartbeats, last_seen, engineVars, regVars, ingestVars,
                  castVars >>

\* ---------------------------------------------------------- health score
\* Sub-scores are kept in hundredths of a point, weights in hundredths, the
\* weighted sum in ten-thousandths.

Max(a, b) == IF a >= b THEN a ELSE b
Min(a, b) == IF a <= b THEN a ELSE b
Abs(a) == IF a >= 0 THEN a ELSE 0 - a

normalize_cpu_score_mut_steep(cpu_usage) ==
  IF cpu_usage <= 20 THEN 10000
  ELSE IF cpu_usage <= 50 THEN 10000 - (cpu_usage - 20) * 150
  ELSE IF cpu_usage <= 80 THEN 5500 - (cpu_usage - 50) * 100
  ELSE Max(0, 2500 - (cpu_usage - 80) * 150)

normalize_cpu_score(cpu_usage) ==
  IF cpu_usage <= 20 THEN 10000
  ELSE IF cpu_usage <= 50 THEN 10000 - (cpu_usage - 20) * 150
  ELSE IF cpu_usage <= 80 THEN 5500 - (cpu_usage - 50) * 100
  ELSE Max(0, 2500 - (cpu_usage - 80) * 125)

normalize_ram_score(ram_usage) ==
  IF ram_usage <= 30 THEN 10000
  ELSE IF ram_usage <= 60 THEN 10000 - (ram_usage - 30) * 120
  ELSE IF ram_usage <= 85 THEN 6400 - (ram_usage - 60) * 100
  ELSE Max(0, 3900 - (ram_usage - 85) * 260)

normalize_temperature_score_mut_unfloored(temperature) ==
  IF 20 <= temperature /\ temperature <= 40 THEN 10000
  ELSE IF 15 <= temperature /\ temperature < 20 THEN 10000 - (20 - temperature) * 200
  ELSE IF 40 < temperature /\ temperature <= 50 THEN 10000 - (temperature - 40) * 200
  ELSE IF 10 <= temperature /\ temperature < 15 THEN 9000 - (15 - temperature) * 300
  ELSE IF 50 < temperature /\ temperature <= 60 THEN 8000 - (temperature - 50) * 300
  ELSE IF 5 <= temperature /\ temperature < 10 THEN 7500 - (10 - temperature) * 500
  ELSE IF 60 < temperature /\ temperature <= 70 THEN 5000 - (temperature - 60) * 500
  ELSE 2500 - Abs(temperature - 35) * 50

normalize_temperature_score(temperature) ==
  IF 20 <= temperature /\ temperature <= 40 THEN 10000
  ELSE IF 15 <= temperature /\ temperature < 20 THEN 10000 - (20 - temperature) * 200
  ELSE IF 40 < temperature /\ temperature <= 50 THEN 10000 - (temperature - 40) * 200
  ELSE IF 10 <= temperature /\ temperature < 15 THEN 9000 - (15 - temperature) * 300
  ELSE IF 50 < temperature /\ temperature <= 60 THEN 8000 - (temperature - 50) * 300
  ELSE IF 5 <= temperature /\ temperature < 10 THEN 7500 - (10 - temperature) * 500
  ELSE IF 60 < temperature /\ temperature <= 70 THEN 5000 - (temperature - 60) * 500
  ELSE Max(0, 2500 - Abs(temperature - 35) * 50)

normalize_disk_score(free_disk_space) ==
  IF free_disk_space >= 50 THEN 10000
  ELSE IF free_disk_space >= 30 THEN 10000 - (50 - free_disk_space) * 100
  ELSE IF free_disk_space >= 20 THEN 8000 - (30 - free_disk_space) * 200
  ELSE IF free_disk_space >= 10 THEN 6000 - (20 - free_disk_space) * 300
  ELSE Max(0, 3000 - (10 - free_disk_space) * 300)

normalize_connectivity_score(connectivity) == IF connectivity THEN 10000 ELSE 0

HealthScoreWeights ==
  [cpu_weight |-> 25, ram_weight |-> 25, temp_weight |-> 30,
   disk_weight |-> 15, connectivity_weight |-> 5]

\* round(x, 2) of a value given in ten-thousandths, ties to even; the result
\* is in hundredths.
Round2(x) ==
  LET q == x \div 100
      m == x % 100
  IN  IF m > 50 \/ (m = 50 /\ q % 2 = 1) THEN q + 1 ELSE q

calculate_health_score(hb) ==
  LET w == HealthScoreWeights
      health_score ==
        normalize_cpu_score(hb.cpu_usage) * w.cpu_weight
        + normalize_ram_score(hb.ram_usage) * w.ram_weight
        + normalize_temperature_score(hb.temperature) * w.temp_weight
        + normalize_disk_score(hb.free_disk_space) * w.disk_weight
        + normalize_connectivity_score(hb.connectivity) * w.connectivity_weight
  IN  Round2(Max(0, Min(1000000, health_score)))

\* The documented bounds of the metrics (schemas/heartbeat.py lines 7-10).
Percentages == 0..100
Temperatures == (0 - 50)..150

\* Metric tuples on the breakpoints of the curves and on the bounds.
ScoreGrid ==
  [ cpu_usage : {0, 20, 50, 80, 100},
    ram_usage : {0, 30, 60, 85, 100},
    temperature : {0 - 50, 5, 20, 40, 70, 150},
    free_disk_space : {0, 10, 30, 50, 100},
    connectivity : BOOLEAN ]

\* normalize_cpu_score called on two usages, the lower one first.
NormalizeCpu(a, b) ==
  /\ probe = NoProbe
  /\ a <= b
  /\ probe' = [op |-> "normalize_cpu_score", a |-> a, b |-> b,
               ra |-> normalize_cpu_score(a), rb |-> normalize_cpu_score(b)]
  /\ UNCHANGED << now, tzAware, dbVars, engineVars, ghostVars, regVars, ingestVars, castVars >>

\* normalize_temperature_score called on two temperatures, the lower one first.
NormalizeTemperature(a, b) ==
  /\ probe = NoProbe
  /\ a <= b
  /\ probe' = [op |-> "normalize_temperature_score", a |-> a, b |-> b,
               ra |-> normalize_temperature_score(a),
               rb |-> normalize_temperature_score(b)]
  /\ UNCHANGED << now, tzAware, dbVars, engineVars, ghostVars, regVars, ingestVars, castVars >>

\* normalize_ram_score and normalize_disk_score called on one value.
NormalizeRam(a) ==
  /\ probe = NoProbe
  /\ probe' = [op |-> "normalize_ram_score", a |-> a, ra |-> normalize_ram_score(a)]
  /\ UNCHANGED << now, tzAware, dbVars, engineVars, ghostVars, regVars, ingestVars, castVars >>

NormalizeDisk(a) ==
  /\ probe = NoProbe
  /\ probe' = [op |-> "normalize_disk_score", a |-> a, ra |-> normalize_disk_score(a)]
  /\ UNCHANGED << now, tzAware, dbVars, engineVars, ghostVars, regVars, ingestVars, castVars >>

\* calculate_health_score called with the default weights; the five
\* sub-scores of lines 146-150 are kept next to the result.
CalculateHealthScore(hb) ==
  /\ probe = NoProbe
  /\ probe' = [op |-> "calculate_health_score", hb |-> hb,
               cpu_score |-> normalize_cpu_score(hb.cpu_usage),
               ram_score |-> normalize_ram_score(hb.ram_usage),
               temp_score |-> normalize_temperature_score(hb.temperature),
               disk_score |-> normalize_disk_score(hb.free_disk_space),
               connectivity_score |-> normalize_connectivity_score(hb.connectivity),
               result |-> calculate_health_score(hb)]
  /\ UNCHANGED << now, tzAware, dbVars, engineVars, ghostVars, regVars, ingestVars, castVars >>

\* ------------------------------------------------------- create_heartbeat

\* Validated HeartbeatCreate payloads: a critical sample that satisfies both
\* rules and a healthy one that satisfies none.
IngestHBs ==
  { [cpu_usage |-> 90, ram_usage |-> 95, temperature |-> 80, free_disk_space |-> 5,
     dns_latency |-> 50, connectivity |-> FALSE],
    [cpu_usage |-> 20, ram_usage |-> 30, temperature |-> 30, free_disk_space |-> 80,
     dns_latency |-> 50, connectivity |-> TRUE] }

\* The rules of device d that hb satisfies and that are active and outside
\* their debounce window when hb is persisted.
Owed(d, hb) ==
  { r \in Rules : /\ RuleDevice[r] = d
                  /\ evaluate_conditions(alerts[r], hb)
                  /\ ~is_triggered(alerts[r], now) }

calculate_health_score_try_mut_propagates(hb, stepRaises) ==
  [raised |-> stepRaises, value |-> IF stepRaises THEN 0 ELSE calculate_health_score(hb)]

\* health_scoring.py lines 144-191: the computation inside its try block;
\* whatever a step of it raises is logged and answered with 0.0.
calculate_health_score_try(hb, stepRaises) ==
  [raised |-> FALSE, value |-> IF stepRaises THEN 0 ELSE calculate_health_score(hb)]

\* heartbeats.py lines 27-111.  The device lookup, the score, the insert and
\* the last_seen update; then broadcast_device_update: with no list under the
\* device key broadcast_to_device returns at once, otherwise json.dumps meets
\* the datetime fields of model_dump() and raises, which line 105 turns into
\* a rollback and a 500 response.  Nothing else is called.
create_heartbeat_mut_casts_first(d, hb, dbOk, stepRaises) ==
  /\ ingests < MaxIngests
  /\ ingests' = ingests + 1
  /\ LET score == calculate_health_score_try(hb, stepRaises)
         request == [device_id |-> d, hb |-> hb, step_raised |-> stepRaises, db_ok |-> dbOk]
     IN  IF d \notin Devices
           THEN /\ ingest' = request @@ [status |-> 404, owed |-> {}, cast |-> "no_key"]
                /\ UNCHANGED << heartbeats, last_seen >>
         ELSE IF score.raised \/ ~dbOk
           THEN /\ ingest' = request @@ [status |-> 500, owed |-> {}, cast |-> "none"]
                /\ UNCHANGED << heartbeats, last_seen >>
           ELSE /\ heartbeats' = [heartbeats EXCEPT ![d] =
                                    Append(@, [payload |-> hb,
                                               health_score |-> score.value,
                                               timestamp |-> now])]
                /\ last_seen' = [last_seen EXCEPT ![d] = Persisted(NaiveNow(now))]
                /\ ingest' = request @@
                               [status |-> IF active_connections[d].present THEN 500 ELSE 201,
                                owed |-> Owed(d, hb),
                                cast |-> IF active_connections[d].present
                                           THEN "raised" ELSE "no_key"]
  /\ UNCHANGED << now, tzAware, alerts, engineVars, ghostVars, regVars, entityVars, castVars >>

create_heartbeat(d, hb, dbOk, stepRaises) ==
  /\ ingests < MaxIngests
  /\ ingests' = ingests + 1
  /\ LET score == calculate_health_score_try(hb, stepRaises)
         request == [device_id |-> d, hb |-> hb, step_raised |-> stepRaises, db_ok |-> dbOk]
     IN  IF d \notin Devices
           THEN /\ ingest' = request @@ [status |-> 404, owed |-> {}, cast |-> "none"]
                /\ UNCHANGED << heartbeats, last_seen >>
         ELSE IF score.raised \/ ~dbOk
           THEN /\ ingest' = request @@ [status |-> 500, owed |-> {}, cast |-> "none"]
                /\ UNCHANGED << heartbeats, last_seen >>
           ELSE /\ heartbeats' = [heartbeats EXCEPT ![d] =
                                    Append(@, [payload |-> hb,
                                               health_score |-> score.value,
                                               timestamp |-> now])]
                /\ last_seen' = [last_seen EXCEPT ![d] = Persisted(NaiveNow(now))]
                /\ ingest' = request @@
                               [status |-> IF active_connections[d].present THEN 500 ELSE 201,
                                owed |-> Owed(d, hb),
                                cast |-> IF active_connections[d].present
                                           THEN "raised" ELSE "no_key"]
  /\ UNCHANGED << now, tzAware, alerts, engineVars, ghostVars, regVars, entityVars, castVars >>

\* ------------------------------------------------- direct calls on a rule

\* The operators AlertCondition admits (schemas/alert.py line 8).
Operators == {">", ">=", "<", "<=", "==", "!="}

\* Conditions on two of the metrics, against the threshold 50.
ProbeConds ==
  { [metric |-> m, operator |-> o, value |-> 50] :
      m \in {"cpu_usage", "temperature"}, o \in Operators }

\* Condition lists of length 0, 1 and 2.
ProbeConditionLists ==
  {<< >>} \cup { << c >> : c \in ProbeConds }
          \cup { << c1, c2 >> : c1 \in ProbeConds, c2 \in ProbeConds }

\* Alert rows, active or not, never triggered.
ProbeRows ==
  { [ conditions |-> cl, duration_minutes |-> 1, is_active |-> a,
      last_triggered |-> NoTimestamp, trigger_count |-> 0 ] :
      cl \in ProbeConditionLists, a \in BOOLEAN }

\* Heartbeat payloads carrying none, one or both of the metrics, below, at
\* and above the threshold.
ProbePayloads ==
  UNION { [D -> {40, 50, 60}] : D \in SUBSET {"cpu_usage", "temperature"} }

\* alert.evaluate_conditions(heartbeat_data) on the stored rule r.
AlertEvaluate(r, hb) ==
  /\ probe' = [op |-> "evaluate_conditions", rule |-> r, row |-> alerts[r], hb |-> hb,
               result |-> evaluate_conditions(alerts[r], hb)]
  /\ UNCHANGED << now, tzAware, dbVars, engineVars, ghostVars, regVars, ingestVars, castVars >>

\* alert.trigger() on the stored rule r, committed.
AlertTrigger(r) ==
  /\ alerts[r].trigger_count < MaxCount
  /\ alerts' = CommitTrigger(r, trigger(alerts[r], now))
  /\ lastFire' = [lastFire EXCEPT ![r] = NaiveNow(now)]
  /\ probe' = [op |-> "trigger", rule |-> r,
               \* kept for the properties: the call came inside the rule's window
               within |-> ~lastFire[r].null /\ now - lastFire[r].t < alerts[r].duration_minutes]
  /\ UNCHANGED << now, tzAware, heartbeats, last_seen, engineVars, regVars, ingestVars, castVars >>

\* alert.reset() on the stored rule r, committed.
AlertReset(r) ==
  /\ alerts' = [alerts EXCEPT ![r] = reset(@)]
  /\ lastFire' = [lastFire EXCEPT ![r] = NoTimestamp]
  /\ probe' = [op |-> "reset", rule |-> r]
  /\ UNCHANGED << now, tzAware, heartbeats, last_seen, engineVars, regVars, ingestVars, castVars >>

\* alert.is_triggered read on the stored rule r: a boolean, or TypeError.
AlertIsTriggered(r) ==
  /\ probe' = [op |-> "is_triggered", rule |-> r,
               raised |-> is_triggered_raises(alerts[r]),
               result |-> IF is_triggered_raises(alerts[r]) THEN FALSE
                          ELSE is_triggered(alerts[r], now)]
  /\ UNCHANGED << now, tzAware, dbVars, engineVars, ghostVars, regVars, ingestVars, castVars >>

\* The bodies of PUT /alerts/{id}: the fields that were set (exclude_unset).
UpdatePayloads ==
  { [duration_minutes |-> 2],
    [conditions |-> << [metric |-> "cpu_usage", operator |-> ">=", value |-> 90] >>],
    [conditions |-> << [metric |-> "temperature", operator |-> "<", value |-> 60] >>,
     is_active |-> TRUE] }

\* The setattr loop of update_alert (api/alerts.py lines 256-258).
SetAttrs(row, data) ==
  [f \in DOMAIN row |-> IF f \in DOMAIN data THEN data[f] ELSE row[f]]

\* api/alerts.py lines 229-289: the rule is looked up among the devices of
\* the current user; the fields set in the body are assigned and committed.
\* Whatever the response built afterwards, the commit stands.
update_alert(r, u, data, commitOk) ==
  /\ LET user_device_ids == { d \in Devices : DeviceOwner[d] = u }
     IN  IF RuleDevice[r] \in user_device_ids /\ commitOk
           THEN alerts' = [alerts EXCEPT ![r] = SetAttrs(@, data)]
           ELSE UNCHANGED alerts
  /\ UNCHANGED << now, tzAware, heartbeats, last_seen, engineVars, ghostVars, regVars,
                  ingestVars, entityVars, castVars >>

toggle_alert_mut_rearms(r, u, commitOk) ==
  /\ LET user_device_ids == { d \in Devices : DeviceOwner[d] = u }
     IN  IF RuleDevice[r] \in user_device_ids /\ commitOk
           THEN alerts' = [alerts EXCEPT ![r].is_active = ~@,
                                         ![r].last_triggered = NoTimestamp]
           ELSE UNCHANGED alerts
  /\ UNCHANGED << now, tzAware, heartbeats, last_seen, engineVars, ghostVars, regVars,
                  ingestVars, entityVars, castVars >>

\* api/alerts.py lines 331-392: is_active is negated and committed.
toggle_alert(r, u, commitOk) ==
  /\ LET user_device_ids == { d \in Devices : DeviceOwner[d] = u }
     IN  IF RuleDevice[r] \in user_device_ids /\ commitOk
           THEN alerts' = [alerts EXCEPT ![r].is_active = ~@]
           ELSE UNCHANGED alerts
  /\ UNCHANGED << now, tzAware, heartbeats, last_seen, engineVars, ghostVars, regVars,
                  ingestVars, entityVars, castVars >>

\* ------------------------------------------------ request validation

\* schemas/alert.py lines 7-22: the metric and operator enumerations and the
\* range of the threshold for each metric; connectivity has no range.
Metrics ==
  {"cpu_usage", "ram_usage", "temperature", "free_disk_space", "dns_latency",
   "connectivity", "health_score"}

ValueInRange(metric, v) ==
  IF metric \in {"cpu_usage", "ram_usage", "free_disk_space", "health_score"}
    THEN 0 <= v /\ v <= 100
  ELSE IF metric = "temperature" THEN (0 - 50) <= v /\ v <= 150
  ELSE IF metric = "dns_latency" THEN 0 <= v /\ v <= 10000
  ELSE TRUE

AlertConditionValid(c) ==
  /\ c.metric \in Metrics
  /\ c.operator \in Operators
  /\ ValueInRange(c.metric, c.value)

\* AlertUpdate (schemas/alert.py lines 49-60).  Every field is Optional: the
\* constraints of a field apply to a value, and an explicit null passes.
AlertUpdateValid(body) ==
  /\ "conditions" \in DOMAIN body.data =>
        /\ Len(body.data.conditions) >= 1 /\ Len(body.data.conditions) <= 5
        /\ \A j \in 1..Len(body.data.conditions) :
              AlertConditionValid(body.data.conditions[j])
  /\ "duration_minutes" \in DOMAIN body.data =>
        body.data.duration_minutes >= 1 /\ body.data.duration_minutes <= 1440

\* PUT bodies as they arrive: data holds the fields set to a value, nulls the
\* fields set explicitly to null.
HotCpu == [metric |-> "cpu_usage", operator |-> ">=", value |-> 90]

RawBodies ==
  { [data |-> [duration_minutes |-> 2], nulls |-> {}],
    [data |-> [duration_minutes |-> 1440], nulls |-> {}],
    [data |-> [duration_minutes |-> 0], nulls |-> {}],
    [data |-> [duration_minutes |-> 1441], nulls |-> {}],
    [data |-> [conditions |-> << HotCpu >>], nulls |-> {}],
    [data |-> [conditions |-> << HotCpu, HotCpu, HotCpu, HotCpu, HotCpu >>], nulls |-> {}],
    [data |-> [conditions |-> << HotCpu, HotCpu, HotCpu, HotCpu, HotCpu, HotCpu >>],
     nulls |-> {}],
    [data |-> [conditions |-> << >>], nulls |-> {}],
    [data |-> [conditions |-> << [metric |-> "cpu_usage", operator |-> ">", value |-> 101] >>],
     nulls |-> {}],
    [data |-> [conditions |-> << [metric |-> "cpu_usage", operator |-> "~", value |-> 50] >>],
     nulls |-> {}],
    [data |-> [conditions |-> << [metric |-> "uptime", operator |-> ">", value |-> 50] >>],
     nulls |-> {}],
    [data |-> [is_active |-> FALSE], nulls |-> {}],
    [data |-> [is_active |-> TRUE], nulls |-> {"conditions"}],
    [data |-> [is_active |-> TRUE], nulls |-> {"duration_minutes"}],
    [data |-> [duration_minutes |-> 2], nulls |-> {"is_active"}] }

\* PUT /alerts/{id} from the request body on (api/alerts.py lines 229-289).
\* A body AlertUpdate rejects is answered 422 before the handler runs.  The
\* setattr loop assigns None for a field set to null; the commit fails on a
\* NOT NULL column (models/alert.py lines 20-21), but the JSON column
\* conditions (line 19) takes None as the JSON value null.  The response is
\* built after the commit.
put_alert(r, u, body, commitOk) ==
  /\ LET user_device_ids == { d \in Devices : DeviceOwner[d] = u }
         assigned == SetAttrs(alerts[r], body.data)
         row == IF "conditions" \in body.nulls
                  THEN [assigned EXCEPT !.conditions = << >>]
                  ELSE assigned
         integrity == body.nulls \cap {"duration_minutes", "is_active"} # {}
         status == IF ~AlertUpdateValid(body) THEN 422
                   ELSE IF RuleDevice[r] \notin user_device_ids THEN 404
                   ELSE IF integrity \/ ~commitOk THEN 500
                   ELSE IF row.conditions = << >> \/ is_triggered_raises(row) THEN 500
                   ELSE 200
         committed == /\ AlertUpdateValid(body)
                      /\ RuleDevice[r] \in user_device_ids
                      /\ ~integrity /\ commitOk
     IN  /\ alerts' = IF committed THEN [alerts EXCEPT ![r] = row] ELSE alerts
         /\ probe' = [op |-> "put_alert", rule |-> r, body |-> body, status |-> status,
                      committed |-> committed]
  /\ UNCHANGED << now, tzAware, heartbeats, last_seen, engineVars, ghostVars, regVars,
                  ingestVars, castVars >>

\* ------------------------------------------------------------ /ws/user

\* The token of a /ws/user request: whether the query parameter is there,
\* whether jwt.decode accepts it as an unexpired access token, and its sub.
Tokens == [present : BOOLEAN, valid : BOOLEAN, sub : Users \cup {NULL}]

\* What the users table holds for the subject.
Lookups == {"missing", "inactive", "active"}

NoPayloadClaims == [ok |-> FALSE, sub |-> NULL]

verify_token_mut_unchecked(token) == [ok |-> TRUE, sub |-> token.sub]

\* core/security.py lines 86-112: the payload, or None for a token that does
\* not decode, has expired or is not an access token.
verify_token(token) ==
  IF token.valid THEN [ok |-> TRUE, sub |-> token.sub] ELSE NoPayloadClaims

\* Lines 127-170 of user_websocket_endpoint: the close code the request is
\* answered with, or 0 when it goes on to connect().
UserChannelClose(token, lookup, dbOk) ==
  IF ~token.present THEN 1008
  ELSE LET payload == verify_token(token)
       IN  IF ~payload.ok THEN 1008
           ELSE IF payload.sub = NULL THEN 1008
           ELSE IF ~dbOk THEN 1011
           ELSE IF lookup # "active" THEN 1008
           ELSE 0

\* user_websocket_endpoint up to its receive loop (lines 117-170).  connect()
\* accepts, which may raise when the peer is gone, and then appends under the
\* user key; every other way out closes the socket and returns.
user_websocket_endpoint(c, token, lookup, dbOk, acceptOk) ==
  /\ ws[c].state = "new"
  /\ LET code == UserChannelClose(token, lookup, dbOk)
         connected == code = 0 /\ acceptOk
     IN  /\ IF connected
               THEN /\ ws' = [ws EXCEPT ![c] = [state |-> "open", device_id |-> NULL,
                                                user_id |-> token.sub]]
                    /\ user_connections' = Connect(user_connections, token.sub, c)
               ELSE /\ ws' = [ws EXCEPT ![c].state = "closed"]
                    /\ UNCHANGED user_connections
         /\ probe' = [op |-> "ws_user", conn |-> c, token |-> token, lookup |-> lookup,
                      db_ok |-> dbOk, accept_ok |-> acceptOk,
                      code |-> IF code = 0 /\ ~acceptOk THEN 1011 ELSE code]
  /\ UNCHANGED << now, tzAware, dbVars, engineVars, ghostVars, active_connections, inbox,
                  ingestVars, castVars >>

\* ------------------------------------------------------------ online status

OnlineMinutes == 5

MaxOnlineTime == 7

\* Device.is_online compares last_seen with the naive utcnow() less five
\* minutes: a timezone-aware last_seen makes the comparison raise TypeError.
is_online_raises(seen) == ~seen.null /\ seen.aware

is_online(seen, t) ==
  IF seen.null THEN FALSE ELSE seen.t > t - OnlineMinutes

\* The clock moves on by n minutes.
Elapse(n) ==
  /\ now + n <= MaxOnlineTime
  /\ now' = now + n
  /\ UNCHANGED << tzAware, dbVars, engineVars, ghostVars, regVars, ingestVars, entityVars,
                  castVars >>

\* A read of device.is_online on the row as the store returns it.
DeviceIsOnline(d) ==
  /\ probe' = [op |-> "is_online", device_id |-> d, at |-> now,
               raised |-> is_online_raises(last_seen[d]),
               value |-> IF is_online_raises(last_seen[d]) THEN FALSE
                         ELSE is_online(last_seen[d], now)]
  /\ probe' # probe
  /\ UNCHANGED << now, tzAware, dbVars, engineVars, ghostVars, regVars, ingestVars, castVars >>

\* ------------------------------------------------------------ statistics

\* ORDER BY trigger_count DESC over the rows in the order the store scans
\* them: rows of equal count stay in scan order.
InsertDesc(q, r, table) ==
  LET before == SelectSeq(q, LAMBDA x : table[x].trigger_count >= table[r].trigger_count)
      after == SelectSeq(q, LAMBDA x : table[x].trigger_count < table[r].trigger_count)
  IN  before \o << r >> \o after

RECURSIVE OrderByDesc(_, _)
OrderByDesc(scan, table) ==
  IF scan = << >> THEN << >>
  ELSE InsertDesc(OrderByDesc(SubSeq(scan, 1, Len(scan) - 1), table), scan[Len(scan)], table)

MostTriggeredLimit == 5

Limit(q, n) == SubSeq(q, 1, Min(Len(q), n))

NoStatistics ==
  [total_alerts |-> 0, active_alerts |-> 0, triggered_alerts |-> 0,
   most_triggered_alerts |-> << >>]

most_triggered_mut_unfiltered(table, device_of, owner, scan, u) ==
  LET most_triggered ==
        Limit(OrderByDesc(SelectSeq(scan, LAMBDA r : table[r].trigger_count > 0), table),
              MostTriggeredLimit)
  IN  [k \in 1..Len(most_triggered) |->
         [id |-> most_triggered[k], trigger_count |-> table[most_triggered[k]].trigger_count]]

\* The most_triggered query and the list built from it (lines 130-144).
most_triggered(table, device_of, owner, scan, u) ==
  LET user_device_ids == { d \in DOMAIN owner : owner[d] = u }
      most_triggered ==
        Limit(OrderByDesc(SelectSeq(scan, LAMBDA r : /\ device_of[r] \in user_device_ids
                                                      /\ table[r].trigger_count > 0),
                          table),
              MostTriggeredLimit)
  IN  [k \in 1..Len(most_triggered) |->
         [id |-> most_triggered[k], trigger_count |-> table[most_triggered[k]].trigger_count]]

\* AlertService.get_alert_statistics over the alerts table, the rule-to-device
\* and device-to-user relations and the scan order of the store.
alert_statistics(table, device_of, owner, scan, u) ==
  LET user_device_ids == { d \in DOMAIN owner : owner[d] = u }
      mine == { r \in DOMAIN table : device_of[r] \in user_device_ids }
  IN  IF user_device_ids = {} THEN NoStatistics
      ELSE [total_alerts |-> Cardinality(mine),
            active_alerts |-> Cardinality({ r \in mine : table[r].is_active }),
            triggered_alerts |-> Cardinality({ r \in mine : ~table[r].last_triggered.null }),
            most_triggered_alerts |-> most_triggered(table, device_of, owner, scan, u)]

get_alert_statistics(u, scan) ==
  /\ probe' = [op |-> "get_alert_statistics", user_id |-> u, at |-> now,
               result |-> alert_statistics(alerts, RuleDevice, DeviceOwner, scan, u)]
  /\ probe' # probe
  /\ UNCHANGED << now, tzAware, dbVars, engineVars, ghostVars, regVars, ingestVars, castVars >>

\* AlertService.get_device_alerts_summary: {} for a device that is not the
\* user's and when a step raises, which is_triggered does on a timezone-aware
\* last_triggered.
get_device_alerts_summary(d, u) ==
  /\ LET mine == { r \in Rules : RuleDevice[r] = d }
         raised == \E r \in mine : is_triggered_raises(alerts[r])
         empty == d \notin Devices \/ DeviceOwner[d] # u \/ raised
     IN  probe' = [op |-> "get_device_alerts_summary", device_id |-> d, user_id |-> u,
                   at |-> now, empty |-> empty,
                   total_alerts |-> IF empty THEN 0 ELSE Cardinality(mine),
                   active_alerts |->
                     IF empty THEN 0 ELSE Cardinality({ r \in mine : alerts[r].is_active }),
                   triggered_alerts |->
                     IF empty THEN 0
                     ELSE Cardinality({ r \in mine : is_triggered(alerts[r], now) })]
  /\ probe' # probe
  /\ UNCHANGED << now, tzAware, dbVars, engineVars, ghostVars, regVars, ingestVars, castVars >>

\* ------------------------------------------------------------ specification

Engine(t) ==
  \/ \E d \in DeviceIds, hb \in HBs : EvalBegin(t, d, hb)
  \/ \E commitOk \in BOOLEAN : EvalRule(t, commitOk)
  \/ \E dumpsOk \in BOOLEAN : EvalNotify(t, dumpsOk)
  \/ EvalSend(t)
  \/ EvalReturn(t)
  \/ EvalFinish(t)

Registry ==
  \/ \E c \in Conns : WsConnect(c, ConnDevice[c], ConnUser[c])
  \/ \E c \in Conns : WsBreak(c)
  \/ \E c \in Conns : WsDisconnect(c)

Resets == \E r \in Rules, u \in Users, commitOk \in BOOLEAN : reset_alert_triggers(r, u, commitOk)

Ingestion ==
  \E d \in DeviceIds, hb \in IngestHBs, dbOk \in BOOLEAN, stepRaises \in BOOLEAN :
    create_heartbeat(d, hb, dbOk, stepRaises)

\* Evaluation calls one after the other, with the clock, resets and new
\* connections in between their steps.
Next ==
  \/ Engine(1)
  \/ Tick
  \/ Resets
  \/ \E c \in {"c1"} : WsConnect(c, ConnDevice[c], ConnUser[c])

Spec == Init /\ [][Next]_vars

\* Evaluation calls of two sessions in flight at once: every store access
\* and every await is a step.
NextConc ==
  \/ \E t \in Tasks : Engine(t)
  \/ Tick
  \/ \E c \in {"c1"} : WsConnect(c, ConnDevice[c], ConnUser[c])

SpecConc == Init /\ [][NextConc]_vars

\* Evaluation calls while connections come and go.
NextNotify == Engine(1) \/ Registry

SpecNotify == Init /\ [][NextNotify]_vars

\* Ingestion requests while the clock runs and connections come and go.
NextIngest ==
  \/ Ingestion
  \/ Tick
  \/ \E c \in RegistryConns : WsConnect(c, ConnDevice[c], ConnUser[c])
  \/ \E c \in RegistryConns : WsBreak(c)
  \/ \E c \in RegistryConns : WsDisconnect(c)

SpecIngest == Init /\ [][NextIngest]_vars

\* Broadcasts of the three kinds, one at a time, while connections come and go.
Cast(b) ==
  \/ \E d \in DeviceIds, dumpsOk \in BOOLEAN : CastBeginKeyed(b, "device", d, dumpsOk)
  \/ \E u \in UserKeys, dumpsOk \in BOOLEAN : CastBeginKeyed(b, "user", u, dumpsOk)
  \/ \E dumpsOk \in BOOLEAN : CastBeginAll(b, dumpsOk)
  \/ CastSend(b)
  \/ CastCleanup(b)
  \/ CastFinish(b)

NextBroadcast == Cast(1) \/ Registry

SpecBroadcast == Init /\ [][NextBroadcast]_vars

\* The keys named by the control messages: the device key the connection
\* already holds, the user key it already holds, and a user key it does not.
ControlKeys == { << "d1", NULL >>, << NULL, "u1" >>, << NULL, "u2" >> }

\* Broadcasts while connections come, go, subscribe, unsubscribe and have
\* their handlers cancelled.
NextRegistry ==
  \/ Cast(1)
  \/ \E c \in RegistryConns : WsConnect(c, ConnDevice[c], ConnUser[c])
  \/ \E c \in RegistryConns : WsBreak(c)
  \/ \E c \in RegistryConns : WsDisconnect(c)
  \/ \E c \in RegistryConns : WsCancel(c)
  \/ \E c \in RegistryConns, k \in ControlKeys : WsSubscribe(c, k[1], k[2])
  \/ \E c \in RegistryConns, k \in ControlKeys : WsUnsubscribe(c, k[1], k[2])

SpecRegistry == Init /\ [][NextRegistry]_vars

\* Broadcasts to connections whose peers may stop reading.  A send that can
\* return does return, and the loop and the cleanup after it are run to
\* their end; nothing obliges a peer to read, to close or to come back.
NextBounded ==
  \/ Cast(1)
  \/ \E c \in RegistryConns : WsConnect(c, ConnDevice[c], ConnUser[c])
  \/ \E c \in RegistryConns : WsBreak(c)
  \/ \E c \in RegistryConns : WsDisconnect(c)
  \/ \E c \in RegistryConns : WsHang(c)

SpecBounded ==
  /\ Init
  /\ [][NextBounded]_vars
  /\ WF_vars(CastSend(1) \/ CastCleanup(1))

\* The health score functions, each applied once to arguments drawn from the
\* documented bounds.
NextScore ==
  \/ probe = NoProbe /\ \E a \in Percentages, b \in Percentages : NormalizeCpu(a, b)
  \/ probe = NoProbe /\ \E a \in Temperatures, b \in Temperatures : NormalizeTemperature(a, b)
  \/ probe = NoProbe /\ \E a \in Percentages : NormalizeRam(a)
  \/ probe = NoProbe /\ \E a \in Percentages : NormalizeDisk(a)
  \/ probe = NoProbe /\ \E hb \in ScoreGrid : CalculateHealthScore(hb)

SpecScore == Init /\ [][NextScore]_vars

\* Statistics and summaries read between the steps of evaluation calls, as the
\* clock advances.
NextStatistics ==
  \/ Engine(1)
  \/ Tick
  \/ \E u \in Users, scan \in Orderings(Rules) : get_alert_statistics(u, scan)
  \/ \E d \in Devices, u \in Users : get_device_alerts_summary(d, u)
  \/ \E c \in {"c1"} : WsConnect(c, ConnDevice[c], ConnUser[c])

SpecStatistics == Init /\ [][NextStatistics]_vars

\* A larger alerts table for the ranking: seven rules, six on the two devices
\* of u1 and one on the device of u2, with every assignment of trigger counts,
\* scanned in either direction.
MaxStatCount == 2

StatRules == {"s1", "s2", "s3", "s4", "s5", "s6", "s7"}

StatDevice == [r \in StatRules |-> IF r = "s4" THEN "e3" ELSE IF r \in {"s1", "s2"} THEN "e1" ELSE "e2"]

StatOwner == [d \in {"e1", "e2", "e3"} |-> IF d = "e3" THEN "u2" ELSE "u1"]

StatScans ==
  { << "s1", "s2", "s3", "s4", "s5", "s6", "s7" >>,
    << "s7", "s6", "s5", "s4", "s3", "s2", "s1" >> }

StatRow(n) ==
  [InitialAlerts["r1"] EXCEPT !.trigger_count = n,
                              !.last_triggered = IF n = 0 THEN NoTimestamp ELSE NaiveNow(0)]

MostTriggered(cnt, scan, u) ==
  /\ probe' = [op |-> "most_triggered", user_id |-> u, cnt |-> cnt,
               result |-> alert_statistics([r \in StatRules |-> StatRow(cnt[r])],
                                           StatDevice, StatOwner, scan, u)]
  /\ UNCHANGED << now, tzAware, dbVars, engineVars, ghostVars, regVars, ingestVars, castVars >>

NextMostTriggered ==
  probe = NoProbe /\
    \E cnt \in [StatRules -> 0..MaxStatCount], scan \in StatScans, u \in Users :
      MostTriggered(cnt, scan, u)

SpecMostTriggered == Init /\ [][NextMostTriggered]_vars

\* Heartbeats arriving and the online status read as time passes.
NextOnline ==
  \/ Ingestion
  \/ \E n \in {1, 4} : Elapse(n)
  \/ \E d \in Devices : DeviceIsOnline(d)

SpecOnline == Init /\ [][NextOnline]_vars

\* Requests on /ws/user with every kind of token, and what becomes of the
\* connections afterwards.
UserChannelConns == {"c1", "c2"}

NextUserChannel ==
  \/ \E c \in UserChannelConns, token \in Tokens, lookup \in Lookups,
        dbOk \in BOOLEAN, acceptOk \in BOOLEAN :
        user_websocket_endpoint(c, token, lookup, dbOk, acceptOk)
  \/ \E c \in UserChannelConns : WsBreak(c)
  \/ \E c \in UserChannelConns : WsDisconnect(c)

SpecUserChannel == Init /\ [][NextUserChannel]_vars

\* Reset requests by either user for any rule id, on rules that trigger as the
\* clock runs.
NextReset ==
  \/ \E r \in Rules : AlertTrigger(r)
  \/ Tick
  \/ \E rid \in RuleIds, u \in Users, commitOk \in BOOLEAN : post_reset(rid, u, commitOk)

SpecReset == Init /\ [][NextReset]_vars

\* PUT requests on the rules, valid and not, by the owner and by another user.
NextRules ==
  \E r \in Rules, u \in Users, body \in RawBodies, commitOk \in BOOLEAN :
    put_alert(r, u, body, commitOk)

SpecRules == Init /\ [][NextRules]_vars

\* Alert.evaluate_conditions applied to rule rows of every shape.
InitCond ==
  /\ now = 0
  /\ tzAware \in BOOLEAN
  /\ \E row \in ProbeRows :
       alerts = [r \in Rules |-> IF r = "r1" THEN row ELSE InitialAlerts[r]]
  /\ task = [t \in Tasks |-> IdleTask]
  /\ lastFire = [r \in Rules |-> NoTimestamp]
  /\ user_connections = [u \in UserKeys |-> NoKey]
  /\ active_connections = [d \in DeviceIds |-> NoKey]
  /\ ws = [c \in Conns |-> [state |-> "new", device_id |-> NULL, user_id |-> NULL]]
  /\ inbox = [c \in Conns |-> {}]
  /\ heartbeats = [d \in Devices |-> << >>]
  /\ last_seen = [d \in Devices |-> NoTimestamp]
  /\ ingest = NoIngest
  /\ ingests = 0
  /\ probe = NoProbe
  /\ bc = [b \in Casts |-> IdleCast]

NextCond == \E r \in Rules, hb \in ProbePayloads : AlertEvaluate(r, hb)

SpecCond == InitCond /\ [][NextCond]_vars

\* The methods of the Alert entity called directly, while the clock runs.
NextEntity ==
  \/ \E r \in Rules : AlertTrigger(r)
  \/ \E r \in Rules : AlertReset(r)
  \/ \E r \in Rules : AlertIsTriggered(r)
  \/ Tick

SpecEntity == Init /\ [][NextEntity]_vars

\* No evaluation call is between its query and its return.
NoCallRunning == \A t \in Tasks : task[t].pc \in {"idle", "done"}

\* Every operation on a rule, one after the other: evaluation calls, direct
\* trigger and reset, reset_alert_triggers, update_alert and toggle_alert.
NextConfig ==
  \/ \E hb \in { h \in HBs : h.temperature <= 60 } : EvalBegin(1, "d1", hb)
  \/ \E commitOk \in BOOLEAN : EvalRule(1, commitOk)
  \/ EvalNotify(1, TRUE)
  \/ EvalReturn(1)
  \/ EvalFinish(1)
  \/ Tick
  \/ NoCallRunning /\ \E u \in Users, commitOk \in BOOLEAN :
                         reset_alert_triggers("r1", u, commitOk)
  \/ NoCallRunning /\ AlertTrigger("r1")
  \/ NoCallRunning /\ AlertReset("r1")
  \/ NoCallRunning /\ \E u \in Users, data \in UpdatePayloads, commitOk \in BOOLEAN :
                         update_alert("r1", u, data, commitOk)
  \/ NoCallRunning /\ \E u \in Users, commitOk \in BOOLEAN : toggle_alert("r1", u, commitOk)

SpecConfig == Init /\ [][NextConfig]_vars

\* ---------------------------------------------------------------- properties

Range(q) == { q[k] : k \in 1..Len(q) }

\* Rule r was triggered, not reset since, and its debounce window is open.
InWindow(r) ==
  /\ ~lastFire[r].null
  /\ now - lastFire[r].t < alerts[r].duration_minutes

\* The step in which call t triggers and commits rule r.
FireStep(t, r) == r \in task'[t].fired /\ r \notin task[t].fired

\* The step in which call t issues the alert_triggered broadcast for rule r.
EmitStep(t, r) == r \in task'[t].notified /\ r \notin task[t].notified

\* The step in which call t evaluates rule r (lines 36-40).
RuleStep(t, r) ==
  /\ task[t].pc = "loop"
  /\ task[t].i <= Len(task[t].active_alerts)
  /\ task[t].active_alerts[task[t].i] = r
  /\ task'[t] # task[t]

\* The step in which call t returns.
ReturnStep(t) == task[t].pc # "done" /\ task'[t].pc = "done"

\* C1: edge-triggered debounce.  With calls made one after the other, while
\* rule R is inside the window opened by its latest trigger (no reset since),
\* no step changes R's trigger_count or triggers R, and an alert_triggered
\* broadcast for R is issued only by the call that triggered R and only once.
C1_EdgeTriggeredDebounce ==
  [][ \A r \in Rules :
        /\ InWindow(r) =>
             /\ alerts'[r].trigger_count = alerts[r].trigger_count
             /\ \A t \in Tasks : ~FireStep(t, r)
        /\ \A t \in Tasks :
             EmitStep(t, r) => r \in task[t].fired /\ task[t].pc = "notify"
    ]_vars

\* A second call evaluated a satisfied rule inside its window, the timestamp
\* comparison went through, and the call left the rule alone.
C1_Witness ==
  \E r \in Rules :
    /\ ~tzAware
    /\ task[1].pc = "done"
    /\ task[1].error = "none"
    /\ r \in task[1].seen \ task[1].fired
    /\ evaluate_conditions(alerts[r], task[1].hb)
    /\ InWindow(r)
    /\ alerts[r].trigger_count = 1

\* C2: re-arming after the window.  A call that evaluates rule R with a
\* satisfying heartbeat, once R's window has elapsed, triggers R: the count
\* grows by exactly 1 and the call goes on to notify (a failing commit aside).
C2_RearmAfterWindow ==
  [][ \A t \in Tasks, r \in Rules :
        ( /\ RuleStep(t, r)
          /\ evaluate_conditions(alerts[r], task[t].hb)
          /\ ~lastFire[r].null
          /\ now - lastFire[r].t >= alerts[r].duration_minutes
          /\ task'[t].error # "CommitError" )
        => /\ FireStep(t, r)
           /\ alerts'[r].trigger_count = alerts[r].trigger_count + 1
           /\ task'[t].pc = "notify"
    ]_vars

\* C3: no duplicate trigger under concurrency.  While rule R is inside the
\* window opened by its latest trigger, no call triggers R.
C3_NoDuplicateTrigger ==
  [][ \A r \in Rules, t \in Tasks : InWindow(r) => ~FireStep(t, r) ]_vars

\* C4: reset semantics.  A reset by the owner leaves is_triggered false and
\* trigger_count unchanged, and a call that starts with R reset and is given a
\* satisfying heartbeat returns having triggered R (a failing commit aside).
C4_ResetSemantics ==
  [][ /\ \A r \in Rules :
           ( ~alerts[r].last_triggered.null /\ alerts'[r].last_triggered.null )
           => /\ ~is_triggered_raises(alerts'[r])
              /\ ~is_triggered(alerts'[r], now)
              /\ alerts'[r].trigger_count = alerts[r].trigger_count
      /\ \A t \in Tasks :
           ( ReturnStep(t) /\ task'[t].error # "CommitError" )
           => \A r \in task'[t].armed :
                evaluate_conditions(alerts[r], task[t].hb) => r \in task'[t].fired
    ]_vars

\* C5: ingestion drives alert evaluation.  The step in which create_heartbeat
\* persists a heartbeat of device D triggers every rule of D that the
\* heartbeat satisfies and that is active and outside its window.
C5_IngestionDrivesEvaluation ==
  [][ \A d \in Devices :
        Len(heartbeats'[d]) > Len(heartbeats[d])
        => \A r \in ingest'.owed :
             /\ alerts'[r].trigger_count = alerts[r].trigger_count + 1
             /\ ~alerts'[r].last_triggered.null
    ]_vars

\* The step in which call t finishes the notification of the rule at hand
\* without the broadcast having raised.
NotifyDone(t, r) ==
  /\ task[t].pc \in {"notify", "send"}
  /\ task[t].active_alerts[task[t].i] = r
  /\ task'[t].pc = "loop"
  /\ r \in task'[t].notified

C7_ResultExactness ==
  \A t \in Tasks : task[t].pc = "done" => Range(task[t].result) = task[t].fired

\* C8: sibling isolation on evaluation failure.  A call in which the
\* evaluation of one rule raised has nevertheless evaluated every other active
\* rule of the device.
C8_SiblingIsolationEvaluation ==
  \A t \in Tasks :
    ( task[t].pc = "done" /\ task[t].error # "none" )
    => \A r \in Range(task[t].active_alerts) \ {task[t].failed} : r \in task[t].seen

\* C9: sibling isolation on notification failure.  No step of the
\* notification of a triggered rule touches the alerts table, raises into the
\* call or drops the rule from the list to return; a notification that fails
\* hands over to the next rule of the device; and a call that returns without
\* an evaluation failure has evaluated every rule and returns every rule it
\* triggered, notified or not.
C9_SiblingIsolationNotification ==
  [][ \A t \in Tasks :
        /\ ( task[t].pc \in {"notify", "send"} /\ task'[t] # task[t] )
           => /\ alerts' = alerts
              /\ task'[t].error = "none"
              /\ task'[t].pc \in {"send", "loop"}
              /\ task'[t].triggered_alerts = task[t].triggered_alerts
              /\ task'[t].fired = task[t].fired
              /\ InSeq(task'[t].triggered_alerts, task[t].active_alerts[task[t].i])
              /\ ~alerts'[task[t].active_alerts[task[t].i]].last_triggered.null
        /\ ( /\ task[t].pc = "notify"
             /\ task'[t] # task[t]
             /\ task[t].active_alerts[task[t].i] \notin task'[t].notified )
           => /\ task'[t].pc = "loop"
              /\ task'[t].i = task[t].i + 1
              /\ task'[t].active_alerts = task[t].active_alerts
        /\ ( ReturnStep(t) /\ task'[t].error = "none" /\ task[t].device_id \in Devices )
           => /\ task'[t].fired \subseteq Range(task'[t].result)
              /\ task'[t].seen = Range(task'[t].active_alerts)
    ]_vars

\* A call returned both rules although the notification of one of them
\* failed, and the rule after the failed one was evaluated.
C9_Witness ==
  \E r \in Rules :
    /\ task[1].pc = "done"
    /\ task[1].error = "none"
    /\ r \in task[1].fired \ task[1].notified
    /\ task[1].active_alerts[1] = r
    /\ Len(task[1].active_alerts) = 2
    /\ task[1].seen = Rules
    /\ Range(task[1].result) = Rules
    /\ alerts[r].trigger_count = 1

\* C10: unknown device.  A call for a device id that does not exist returns
\* the empty list at once, without raising, and leaves every rule and every
\* connection's inbox as they were.
C10_UnknownDevice ==
  [][ \A t \in Tasks :
        ( /\ task[t].pc = "idle"
          /\ task'[t].pc # "idle"
          /\ task'[t].device_id \notin Devices )
        => /\ task'[t].pc = "done"
           /\ task'[t].result = << >>
           /\ task'[t].error = "none"
           /\ task'[t].fired = {}
           /\ task'[t].notified = {}
           /\ alerts' = alerts
           /\ inbox' = inbox
    ]_vars

\* A call for the unknown device has returned while a rule of the known
\* device carries a trigger and a connection of its owner is open.
C10_Witness ==
  /\ task[1].pc = "done"
  /\ task[1].device_id = "dX"
  /\ task[1].result = << >>
  /\ alerts["r1"].trigger_count = 1
  /\ ~alerts["r1"].last_triggered.null
  /\ ws["c1"].state = "open"

\* What it means for a reading to satisfy a threshold under an operator.
HoldsUnder(op, x, v) ==
  CASE op = ">"  -> x > v
    [] op = ">=" -> x >= v
    [] op = "<"  -> x < v
    [] op = "<=" -> x <= v
    [] op = "==" -> x = v
    [] op = "!=" -> x # v

\* C11: condition evaluation.  evaluate_conditions returns true iff the rule
\* is active, has at least one condition, and every condition whose metric is
\* in the payload holds under its operator against its threshold; conditions
\* on metrics absent from the payload are skipped.
C11_ConditionEvaluation ==
  probe.op = "evaluate_conditions" =>
    LET cs == probe.row.conditions
    IN  probe.result =
          ( /\ probe.row.is_active
            /\ Len(cs) >= 1
            /\ \A k \in 1..Len(cs) :
                 cs[k].metric \in DOMAIN probe.hb
                 => HoldsUnder(cs[k].operator, probe.hb[cs[k].metric], cs[k].value) )

\* A partial heartbeat made a rule evaluate to true although none of its two
\* conditions refers to a metric of the payload.
C11_Witness ==
  /\ probe.op = "evaluate_conditions"
  /\ probe.result
  /\ Len(probe.row.conditions) = 2
  /\ DOMAIN probe.hb # {}
  /\ \A k \in 1..2 : probe.row.conditions[k].metric \notin DOMAIN probe.hb

\* C12: trigger().  Every call of Alert.trigger sets last_triggered to the
\* current time and adds exactly 1 to trigger_count, inside the debounce
\* window as well as outside it, and touches nothing else.
C12_TriggerAlwaysCounts ==
  [][ \A r \in Rules :
        ( probe'.op = "trigger" /\ probe'.rule = r /\ << alerts, probe >>' # << alerts, probe >> )
        => /\ trigger(alerts[r], now).last_triggered = [null |-> FALSE, t |-> now, aware |-> FALSE]
           /\ trigger(alerts[r], now).trigger_count = alerts[r].trigger_count + 1
           /\ alerts'[r].trigger_count = alerts[r].trigger_count + 1
           /\ ~alerts'[r].last_triggered.null
           /\ alerts'[r].last_triggered.t = now
           /\ alerts'[r].conditions = alerts[r].conditions
           /\ alerts'[r].duration_minutes = alerts[r].duration_minutes
           /\ alerts'[r].is_active = alerts[r].is_active
           /\ \A q \in Rules \ {r} : alerts'[q] = alerts[q]
    ]_vars

\* trigger() was called on a rule inside its window and counted again.
C12_Witness ==
  /\ probe.op = "trigger"
  /\ probe.within
  /\ alerts[probe.rule].trigger_count = 2
  /\ ~alerts[probe.rule].last_triggered.null
  /\ alerts[probe.rule].last_triggered.t = now

\* C13: trigger_count is monotonic.  Over evaluation calls, trigger, reset,
\* reset_alert_triggers, update_alert and toggle_alert, a rule's trigger_count
\* never decreases, and when it changes it grows by 1 in a step that stamps
\* last_triggered with the current time.
C13_TriggerCountMonotonic ==
  [][ \A r \in Rules :
        /\ alerts'[r].trigger_count >= alerts[r].trigger_count
        /\ alerts'[r].trigger_count # alerts[r].trigger_count
           => /\ alerts'[r].trigger_count = alerts[r].trigger_count + 1
              /\ ~alerts'[r].last_triggered.null
              /\ alerts'[r].last_triggered.t = now
    ]_vars

\* A rule that an evaluation call triggered was then reset, reconfigured and
\* switched off, and still carries both of its triggers.
C13_Witness ==
  /\ task[1].pc = "done"
  /\ "r1" \in task[1].fired
  /\ alerts["r1"].trigger_count = 2
  /\ alerts["r1"].last_triggered.null
  /\ ~alerts["r1"].is_active
  /\ alerts["r1"].duration_minutes = 2
  /\ alerts["r1"].conditions # InitialAlerts["r1"].conditions

\* C14: is_triggered invariant.  In every reachable state, reading
\* is_triggered of a rule gives a boolean, and it is true iff last_triggered
\* is set and now - last_triggered < duration_minutes.
C14_IsTriggeredInvariant ==
  \A r \in Rules :
    /\ ~is_triggered_raises(alerts[r])
    /\ is_triggered(alerts[r], now)
       <=> ( /\ ~alerts[r].last_triggered.null
             /\ now - alerts[r].last_triggered.t < alerts[r].duration_minutes )


\* Whether connection c is in some list of either registry map.
Registered(ac, uc, c) ==
  \/ \E k \in DOMAIN ac : InSeq(ac[k].conns, c)
  \/ \E k \in DOMAIN uc : InSeq(uc[k].conns, c)

\* The step in which broadcast b completes its send loop and cleanup.
CastCompletes(b) == bc[b].pc = "send" /\ bc'[b].pc = "done"

\* C15: when a broadcast of any kind completes, every connection whose send
\* failed during it is in no list of the device map and in no list of the
\* user map.
C15_DeadConnectionPruning ==
  [][CastCompletes(1) =>
       \A j \in 1..Len(bc[1].disconnected) :
          ~Registered(active_connections', user_connections', bc[1].disconnected[j])]_vars


\* C16: neither registry map holds a key whose list of connections is empty.
C16_NoEmptyKeys ==
  /\ \A k \in DOMAIN active_connections :
        active_connections[k].present => active_connections[k].conns # << >>
  /\ \A k \in DOMAIN user_connections :
        user_connections[k].present => user_connections[k].conns # << >>

\* The step in which broadcast b addresses one connection, and that connection.
CastSends(b) == bc[b].pc = "send" /\ bc'[b].bi = bc[b].bi + 1

CastTarget(b) ==
  IF Len(bc'[b].sent) > Len(bc[b].sent)
    THEN bc'[b].sent[Len(bc'[b].sent)]
    ELSE bc'[b].disconnected[Len(bc'[b].disconnected)]

\* C17: a broadcast to device key D addresses only connections that are in the
\* list under D of the device map, whatever the user map holds under the same
\* string; a broadcast to user key U addresses only connections that are in
\* the list under U of the user map.
C17_RegistryIsolation ==
  [][CastSends(1) =>
       /\ bc[1].kind = "device" =>
            InSeq(active_connections[bc[1].key].conns, CastTarget(1))
       /\ bc[1].kind = "user" =>
            InSeq(user_connections[bc[1].key].conns, CastTarget(1))]_vars

\* A broadcast to device key d1 has delivered while c4, open, is registered
\* under the user key of the same string only, and c4 got nothing.
C17_Witness ==
  /\ bc[1].pc = "done" /\ bc[1].kind = "device" /\ bc[1].key = "d1"
  /\ bc[1].sent # << >>
  /\ ws["c4"].state = "open"
  /\ InSeq(user_connections["d1"].conns, "c4")
  /\ ~InSeq(bc[1].sent, "c4")

\* Number of occurrences of c in a sequence.
RECURSIVE Copies(_, _)
Copies(seq, c) ==
  IF seq = << >> THEN 0
  ELSE (IF Head(seq) = c THEN 1 ELSE 0) + Copies(Tail(seq), c)

\* C18: broadcast_to_all addresses every connection that is in some list of
\* either map when it is called, and by its completion each of them has been
\* sent to exactly once (delivered once if its socket is open), however many
\* keys it is registered under; nothing else is addressed.
C18_BroadcastAllOnce ==
  [][/\ (bc[1].pc = "idle" /\ bc'[1].kind = "all" /\ bc'[1].pc = "send") =>
          \A c \in Conns :
             Registered(active_connections, user_connections, c)
               <=> Copies(bc'[1].targets, c) = 1
     /\ (CastCompletes(1) /\ bc[1].kind = "all") =>
          \A c \in Conns :
             /\ Copies(bc[1].sent, c) + Copies(bc[1].disconnected, c)
                  = Copies(bc[1].targets, c)
             /\ Copies(bc[1].targets, c) <= 1
             /\ (Copies(bc[1].targets, c) = 1 /\ ws[c].state = "open")
                  => Copies(bc[1].sent, c) = 1]_vars

\* broadcast_to_all has completed with c2, registered under device key d1 and
\* under user key u1 when it was called, among the connections delivered to.
C18_Witness ==
  /\ bc[1].pc = "done" /\ bc[1].kind = "all"
  /\ InSeq(active_connections["d1"].conns, "c2")
  /\ InSeq(user_connections["u1"].conns, "c2")
  /\ Copies(bc[1].sent, "c2") = 1
  /\ Len(bc[1].targets) >= 3

\* Whether c is, at the end of broadcast b, among the connections the
\* broadcast is for: in the list under its key, or in the collected set.
UnderCastKey(b, c) ==
  IF bc[b].kind = "all" THEN InSeq(bc[b].targets, c)
  ELSE InSeq(KeyedMap(bc[b].kind)[bc[b].key].conns, c)

\* C19: a broadcast in which a send failed still completes without raising
\* to its caller, and every other connection that was under the key when it
\* started and still is when it ends has been sent the event.
C19_FailureIsolated ==
  [][(CastCompletes(1) /\ bc[1].disconnected # << >>) =>
       /\ ~bc'[1].raised
       /\ \A c \in Conns :
            (InSeq(bc[1].audience, c) /\ UnderCastKey(1, c) /\ ~InSeq(bc[1].disconnected, c))
              => InSeq(bc[1].sent, c)]_vars

\* C20: a create_heartbeat call for an existing device whose heartbeat was
\* persisted answers with success, whatever the connections under the device
\* key are doing.
C20_DeadSocketNeverFailsIngestion ==
  [][\A d \in Devices :
       Len(heartbeats'[d]) > Len(heartbeats[d]) => ingest'.status = 201]_vars

\* Whether the handler task of connection c has ended.
HandlerEnded(c) == ws[c].state \in {"closed", "cancelled"}

\* C21: a connection whose handler task has ended, however it ended, is in no
\* list of either registry map.
C21_DisconnectCleanup ==
  \A c \in Conns :
    HandlerEnded(c) => ~Registered(active_connections, user_connections, c)

\* C22: when a broadcast to a key completes, every connection that was under
\* the key when the broadcast started and still is has been addressed exactly
\* once, whatever other connections did to the key meanwhile.
C22_SnapshotDelivery ==
  [][(CastCompletes(1) /\ bc[1].kind \in {"device", "user"}) =>
       \A c \in Conns :
          (InSeq(bc[1].audience, c) /\ UnderCastKey(1, c))
            => Copies(bc[1].sent, c) + Copies(bc[1].disconnected, c) = 1]_vars

\* C23: no broadcast ends on a failed removal (a key or a member that is no
\* longer there), and every send of a broadcast goes to a connection that is
\* still in some list of the registry when the send is issued.
C23_NoCorruptionNoLateDelivery ==
  [][/\ CastCompletes(1) => ~bc'[1].raised
     /\ CastSends(1) =>
          Registered(active_connections, user_connections, CastTarget(1))]_vars

\* The step in which the handler of a connection processes a control message
\* of the given kind.
ControlStep(op) == probe' # probe /\ probe'.op = op

\* C24: a connection is at most once in the list of any key, also after it
\* registered again under a key it holds; a broadcast to the key addresses it
\* once, and one unsubscribe from the key leaves it out of the key's list.
C24_SetSemantics ==
  [][/\ \A c \in Conns :
          /\ \A k \in DOMAIN active_connections :
                Copies(active_connections'[k].conns, c) <= 1
          /\ \A k \in DOMAIN user_connections :
                Copies(user_connections'[k].conns, c) <= 1
     /\ (CastCompletes(1) /\ bc[1].kind \in {"device", "user"}) =>
          \A c \in Conns : Copies(bc[1].sent, c) + Copies(bc[1].disconnected, c) <= 1
     /\ ControlStep("unsubscribe") =>
          /\ probe'.device_id # NULL =>
                ~InSeq(active_connections'[probe'.device_id].conns, probe'.conn)
          /\ probe'.user_id # NULL =>
                ~InSeq(user_connections'[probe'.user_id].conns, probe'.conn)]_vars

\* c2, registered under device key d1 when it connected, has asked to
\* subscribe to d1 again and is once in the list of d1.
C24_Witness ==
  /\ probe.op = "subscribe" /\ probe.conn = "c2" /\ probe.device_id = "d1"
  /\ Copies(active_connections["d1"].conns, "c2") = 1

\* C25: once the handler of an open connection has processed a subscribe
\* message naming a device and/or a user, the connection is in the list of
\* each key named, and still in every list it was in.
C25_SubscribeAddsMembership ==
  [][ControlStep("subscribe") =>
       /\ probe'.device_id # NULL =>
             InSeq(active_connections'[probe'.device_id].conns, probe'.conn)
       /\ probe'.user_id # NULL =>
             InSeq(user_connections'[probe'.user_id].conns, probe'.conn)
       /\ \A k \in DOMAIN active_connections :
             InSeq(active_connections[k].conns, probe'.conn)
               => InSeq(active_connections'[k].conns, probe'.conn)
       /\ \A k \in DOMAIN user_connections :
             InSeq(user_connections[k].conns, probe'.conn)
               => InSeq(user_connections'[k].conns, probe'.conn)]_vars

\* C26: a broadcast that has entered its send loop eventually completes.
C26_BoundedSends == (bc[1].pc = "send") ~> (bc[1].pc = "done")

\* A score in hundredths of a point that lies in [0, 100].
InScoreRange(x) == 0 <= x /\ x <= 10000

\* C27: for metrics within the documented bounds and the default weights the
\* health score is in [0, 100], and so is each of the five sub-scores.
C27_HealthScoreRange ==
  /\ probe.op = "calculate_health_score" =>
        /\ InScoreRange(probe.result)
        /\ InScoreRange(probe.cpu_score) /\ InScoreRange(probe.ram_score)
        /\ InScoreRange(probe.temp_score) /\ InScoreRange(probe.disk_score)
        /\ InScoreRange(probe.connectivity_score)
  /\ probe.op \in {"normalize_cpu_score", "normalize_temperature_score"} =>
        InScoreRange(probe.ra) /\ InScoreRange(probe.rb)
  /\ probe.op \in {"normalize_ram_score", "normalize_disk_score"} =>
        InScoreRange(probe.ra)

\* The score of the worst metric tuple within the bounds has been computed,
\* with the temperature sub-score on its floor.
C27_Witness ==
  /\ probe.op = "calculate_health_score"
  /\ probe.hb = [cpu_usage |-> 100, ram_usage |-> 100, temperature |-> 150,
                 free_disk_space |-> 0, connectivity |-> FALSE]
  /\ probe.temp_score = 0
  /\ probe.result = 0

\* C28: normalize_cpu_score is 100 up to 20, then linear down to 55 at 50, to
\* 25 at 80 and to 0 at 100; it never increases with the usage and makes no
\* jump at a breakpoint.
C28_CpuCurve ==
  probe.op = "normalize_cpu_score" =>
    /\ probe.a <= 20 => probe.ra = 10000
    /\ (20 <= probe.a /\ probe.a <= 50) =>
          probe.ra * 30 = 10000 * (50 - probe.a) + 5500 * (probe.a - 20)
    /\ (50 <= probe.a /\ probe.a <= 80) =>
          probe.ra * 30 = 5500 * (80 - probe.a) + 2500 * (probe.a - 50)
    /\ (80 <= probe.a /\ probe.a <= 100) =>
          probe.ra * 20 = 2500 * (100 - probe.a)
    /\ probe.ra >= probe.rb
    /\ probe.b = probe.a + 1 => probe.ra - probe.rb <= 150

\* The curve has been computed at 80 and at 100.
C28_Witness ==
  /\ probe.op = "normalize_cpu_score"
  /\ probe.a = 80 /\ probe.ra = 2500
  /\ probe.b = 100 /\ probe.rb = 0

\* C29: normalize_temperature_score is 100 inside 20..40, and outside the
\* band a temperature further from it never scores more than one closer to
\* it, on either side.
C29_TemperatureBand ==
  probe.op = "normalize_temperature_score" =>
    /\ (20 <= probe.a /\ probe.a <= 40) => probe.ra = 10000
    /\ 40 <= probe.a => probe.ra >= probe.rb
    /\ probe.b <= 20 => probe.rb >= probe.ra

\* C30: when a step of the health score computation fails while the device
\* exists and the database is reachable, create_heartbeat still stores the
\* heartbeat, with health score 0, and the failed computation is not what
\* the request answers: with no subscriber under the device key it is a 201.
C30_HealthScoreFailureContained ==
  [][(ingests' = ingests + 1 /\ ingest'.step_raised /\ ingest'.db_ok
        /\ ingest'.device_id \in Devices) =>
       LET d == ingest'.device_id
       IN  /\ Len(heartbeats'[d]) = Len(heartbeats[d]) + 1
           /\ heartbeats'[d][Len(heartbeats'[d])].health_score = 0
           /\ heartbeats'[d][Len(heartbeats'[d])].payload = ingest'.hb
           /\ ~active_connections[d].present => ingest'.status = 201]_vars

\* A request whose score computation failed has been answered 201 and its
\* heartbeat, the healthy sample, is stored with score 0.
C30_Witness ==
  /\ ingest.step_raised /\ ingest.status = 201 /\ ingest.device_id = "d1"
  /\ ingest.hb.cpu_usage = 20
  /\ heartbeats["d1"] # << >>
  /\ heartbeats["d1"][Len(heartbeats["d1"])].health_score = 0
  /\ heartbeats["d1"][Len(heartbeats["d1"])].payload = ingest.hb

\* A rule row as the schema of the API admits it.
RuleWellFormed(row) ==
  /\ Len(row.conditions) >= 1 /\ Len(row.conditions) <= 5
  /\ \A j \in 1..Len(row.conditions) : AlertConditionValid(row.conditions[j])
  /\ row.duration_minutes >= 1 /\ row.duration_minutes <= 1440

\* C31: every stored rule has 1 to 5 conditions with a known metric and
\* operator and a threshold in range, and a duration of 1 to 1440 minutes.
C31_ValidatedRulesOnly == \A r \in Rules : RuleWellFormed(alerts[r])

\* The rules of user u's devices whose latest trigger is inside its window.
CurrentlyTriggered(u) ==
  { r \in Rules : /\ DeviceOwner[RuleDevice[r]] = u
                  /\ ~alerts[r].last_triggered.null
                  /\ now - alerts[r].last_triggered.t < alerts[r].duration_minutes }

\* C32: the statistics of a user count the rules on the user's devices, the
\* active ones among them, and as triggered_alerts the ones currently
\* triggered, so the figure falls back when a window expires.
C32_StatisticsCounts ==
  [][ ControlStep("get_alert_statistics") =>
        LET u == probe'.user_id
            mine == { r \in Rules : DeviceOwner[RuleDevice[r]] = u }
        IN  /\ probe'.result.total_alerts = Cardinality(mine)
            /\ probe'.result.active_alerts = Cardinality({ r \in mine : alerts[r].is_active })
            /\ probe'.result.triggered_alerts = Cardinality(CurrentlyTriggered(u))
    ]_vars

\* C33: most_triggered_alerts has at most five entries, all rules of the
\* user's devices with a positive trigger count, in non-increasing order of
\* count, and no rule left out has a larger count than a rule listed.
C33_MostTriggeredRanking ==
  probe.op = "most_triggered" =>
    LET q == probe.result.most_triggered_alerts
        listed == { q[k].id : k \in 1..Len(q) }
        eligible == { r \in StatRules : /\ StatOwner[StatDevice[r]] = probe.user_id
                                        /\ probe.cnt[r] > 0 }
    IN  /\ Len(q) <= 5
        /\ Len(q) = Min(5, Cardinality(eligible))
        /\ Cardinality(listed) = Len(q)
        /\ listed \subseteq eligible
        /\ \A k \in 1..Len(q) : q[k].trigger_count = probe.cnt[q[k].id]
        /\ \A k \in 1..(Len(q) - 1) : q[k].trigger_count >= q[k + 1].trigger_count
        /\ \A r \in eligible \ listed : \A k \in 1..Len(q) : probe.cnt[r] <= q[k].trigger_count

\* Six rules of the user have triggered, with different counts among them, and
\* a rule of another user has the largest count of all.
C33_Witness ==
  /\ probe.op = "most_triggered"
  /\ probe.user_id = "u1"
  /\ Len(probe.result.most_triggered_alerts) = 5
  /\ Cardinality({ r \in StatRules : probe.cnt[r] > 0 }) = 7
  /\ probe.cnt["s4"] = 2
  /\ probe.cnt["s7"] = 1
  /\ probe.cnt["s1"] = 2
  /\ probe.result.most_triggered_alerts[5].trigger_count = 1

\* C34: a read of is_online answers true exactly when the device has a
\* last_seen less than five minutes old, and a create_heartbeat call answered
\* with success has set last_seen to the time of the call.
C34_OnlineStatus ==
  [][ /\ ControlStep("is_online") =>
           LET d == probe'.device_id
           IN  /\ ~probe'.raised
               /\ probe'.value <=> ( /\ ~last_seen[d].null
                                     /\ now - last_seen[d].t < OnlineMinutes )
      /\ (ingests' = ingests + 1 /\ ingest'.status = 201) =>
           /\ ~last_seen'[ingest'.device_id].null
           /\ last_seen'[ingest'.device_id].t = now
    ]_vars

\* The step in which the alert_triggered event of rule r issued by call t
\* reaches some connection.
DeliverStep(t, r) == \E c \in Conns : AlertEvent(r, t) \in inbox'[c] \ inbox[c]

\* C35: inside one call, the step that triggers a rule writes the trigger to
\* the alerts table and sends nothing; the notification of a rule is issued
\* and delivered only after that write, while the rule is the one at hand;
\* and when a rule is evaluated, every rule the call triggered before has its
\* notification behind it.
C35_PerRuleOrdering ==
  [][ \A t \in Tasks, r \in Rules :
        /\ FireStep(t, r) =>
             /\ alerts'[r].trigger_count >= 1
             /\ ~alerts'[r].last_triggered.null
             /\ alerts'[r].last_triggered.t = now
             /\ r \notin task'[t].notified
             /\ inbox' = inbox
        /\ EmitStep(t, r) =>
             /\ r \in task[t].fired
             /\ ~alerts[r].last_triggered.null
             /\ alerts[r].trigger_count >= 1
        /\ DeliverStep(t, r) =>
             /\ r \in task[t].fired
             /\ r \in task[t].notified
             /\ ~alerts[r].last_triggered.null
             /\ task[t].pc = "send"
             /\ task[t].active_alerts[task[t].i] = r
        /\ RuleStep(t, r) =>
             /\ r \notin task[t].fired
             /\ \A q \in task[t].fired :
                  \E k \in 1..(task[t].i - 1) : task[t].active_alerts[k] = q
             /\ ~DeliverStep(t, r)
             /\ \A q \in task[t].fired : ~DeliverStep(t, q)
    ]_vars

\* The first rule was triggered and its event delivered, and the call is about
\* to evaluate the second rule.
C35_Witness ==
  /\ task[1].pc = "loop"
  /\ task[1].i = 2
  /\ Len(task[1].active_alerts) = 2
  /\ task[1].active_alerts[1] \in task[1].fired
  /\ task[1].active_alerts[1] \in task[1].notified
  /\ \E c \in Conns : AlertEvent(task[1].active_alerts[1], 1) \in inbox[c]
  /\ alerts[task[1].active_alerts[1]].trigger_count = 1

\* C36: the evaluation of a rule that has triggered before goes through the
\* is_triggered check without raising, whatever the stored last_triggered is:
\* the call suppresses or re-triggers the rule and moves on.
C36_TimestampComparisonNeverFails ==
  [][ \A t \in Tasks, r \in Rules :
        ( /\ RuleStep(t, r)
          /\ ~Loaded(t, r).last_triggered.null
          /\ evaluate_conditions(Loaded(t, r), task[t].hb) )
        => /\ task'[t].error # "TypeError"
           /\ task'[t].pc \in {"loop", "notify"} \/ task'[t].error = "CommitError"
    ]_vars

C38_ResetOwnerOnly ==
  [][ ControlStep("reset_alert_triggers") =>
        LET rid == probe'.alert_id
            u == probe'.user_id
            owned == rid \in Rules /\ DeviceOwner[RuleDevice[rid]] = u
        IN  /\ ~owned => ( ~probe'.result /\ probe'.status = 404 /\ alerts' = alerts )
            /\ probe'.result =>
                  /\ owned
                  /\ alerts'[rid].last_triggered.null
                  /\ alerts'[rid].trigger_count = alerts[rid].trigger_count
                  /\ \A q \in Rules \ {rid} : alerts'[q] = alerts[q]
            /\ ~probe'.result => alerts' = alerts
    ]_vars

\* Another user's reset request for a triggered rule was answered 404 and the
\* rule still carries its trigger.
C38_Witness ==
  /\ probe.op = "reset_alert_triggers"
  /\ probe.alert_id = "r1"
  /\ probe.user_id = "u2"
  /\ ~probe.result
  /\ ~alerts["r1"].last_triggered.null
  /\ alerts["r1"].trigger_count = 1

\* The configuration of rule r changes in the step.
ConfigStep(r) ==
  \/ alerts'[r].is_active # alerts[r].is_active
  \/ alerts'[r].conditions # alerts[r].conditions
  \/ alerts'[r].duration_minutes # alerts[r].duration_minutes

\* C39: a step that changes a rule's configuration leaves its last_triggered
\* and trigger_count alone, and an evaluation call triggers a rule only while
\* the rule is active and outside the window of its latest stored trigger,
\* however often the rule was switched off and on meanwhile.
C39_ConfigKeepsTriggerState ==
  [][ \A r \in Rules :
        /\ ConfigStep(r) =>
             /\ alerts'[r].last_triggered = alerts[r].last_triggered
             /\ alerts'[r].trigger_count = alerts[r].trigger_count
        /\ \A t \in Tasks :
             FireStep(t, r) =>
               /\ alerts[r].is_active
               /\ ~( /\ ~alerts[r].last_triggered.null
                     /\ now - alerts[r].last_triggered.t < alerts[r].duration_minutes )
    ]_vars

\* A call ran while the triggered rule was switched off and did not look at
\* it; the rule is active again, inside its window, with its one trigger.
C39_Witness ==
  /\ task[1].pc = "done"
  /\ task[1].error = "none"
  /\ "r1" \notin Range(task[1].active_alerts)
  /\ "r2" \in task[1].seen
  /\ alerts["r1"].is_active
  /\ alerts["r1"].trigger_count = 1
  /\ ~alerts["r1"].last_triggered.null
  /\ now - alerts["r1"].last_triggered.t < alerts["r1"].duration_minutes

====
